---------------------------- MODULE Spec2Model ----------------------------
(***************************************************************************)
(* Loka trip planner: the expense balance engine of                        *)
(* frontend-v2/src/components/TripExpenses.tsx.                            *)
(*                                                                         *)
(* Numbers.  Every amount the program stores (expense amounts, payer and   *)
(* split amounts, pivot amounts) is an integer count of ticks of 0.005 of  *)
(* a currency unit, and a percentage is an integer count of ticks of 0.005 *)
(* of a percent: Amt(100) is 100.00 and Amt(40) - 1 is 39.995.  Every      *)
(* amount the program computes with / and * is an exact rational <<n, d>>  *)
(* of ticks: IEEE-754 rounding is abstracted to exact arithmetic, so       *)
(* "equal within floating tolerance" reads "equal".                        *)
(***************************************************************************)
EXTENDS Integers, Sequences, FiniteSets, TLC

VARIABLES
    balances,          \* prop `balances`: the input ParticipantBalance list
    expenses,          \* trip.expenses
    convertedAmounts,  \* state: Map<expense id, pivot (EUR) amount>
    eurBalances,       \* the useMemo value of the Balance Aggregator
    formData,          \* state: the add/edit form
    addDialogOpen,     \* state: the dialog is shown
    editingExpense,    \* state: the expense being edited, or null
    outcome,           \* what the handler that ran last reported or called
    pending,           \* persistence calls of handleSubmit still awaited
    edits,             \* field changes made since the dialog opened
    conversionCache,   \* currency.ts: Map<"FROM_TO", {rate, timestamp}>
    now,               \* Date.now()
    inflight,          \* convertCurrency calls awaiting the rate source
    returned,          \* the convertCurrency returns of the last step
    batch,             \* the convertMultipleCurrencies call in progress
    displayCurrency,   \* state: currency of the Total Expenses card
    convertedTotal,    \* state: the total in the display currency
    permission,        \* prop `permission`: 'view' | 'edit'
    user,              \* useAuth().user: the signed-in user, or null
    isOwner,           \* trip.isOwner
    trips,             \* the trips collection (or memoryStore.trips)
    database,          \* getDatabase() gives a database
    requests,          \* trips API requests whose handler awaits the store
    answered,          \* the responses of the trips API, in order
    token,             \* AuthProvider state: the session token, or null
    error,             \* AuthProvider state: the last error, or null
    localStorage,      \* the persisted 'authToken' and 'user' entries
    authCalls,         \* loginWithEmail/register calls awaiting the server
    filterCategory,    \* state: the category filter of the expense list
    filterParticipant, \* state: the participant filter of the expense list
    users,             \* the users collection
    registrations,     \* POST /register requests awaiting the collection
    registered,        \* the responses of POST /register, in order
    verifying,         \* requests whose token verifyGoogleToken is checking
    verified,          \* what verifyGoogleToken did for each request
    checkoutRequest,   \* the body of the POST /smart-checkout request
    checkoutResponse   \* its response, once sent

vars == <<balances, expenses, convertedAmounts, eurBalances,
          formData, addDialogOpen, editingExpense, outcome, pending, edits,
          conversionCache, now, inflight, returned, batch,
          displayCurrency, convertedTotal,
          permission, user, isOwner,
          trips, database, requests, answered,
          token, error, localStorage, authCalls,
          filterCategory, filterParticipant,
          users, registrations, registered, verifying, verified,
          checkoutRequest, checkoutResponse>>

aggVars == <<balances, expenses, convertedAmounts, eurBalances>>
formVars == <<formData, addDialogOpen, editingExpense, outcome, pending, edits>>
convVars == <<conversionCache, now, inflight, returned, batch>>
viewVars == <<displayCurrency, convertedTotal>>
sessionVars == <<user, token, error, localStorage, authCalls>>
filterVars == <<filterCategory, filterParticipant>>
listVars == <<permission, isOwner, sessionVars, filterVars>>
frontVars == <<aggVars, formVars, convVars, viewVars, listVars>>
tripVars == <<trips, database, requests, answered>>
regVars == <<users, registrations, registered>>
mwVars == <<verifying, verified>>
checkoutVars == <<checkoutRequest, checkoutResponse>>
backVars == <<tripVars, regVars, mwVars, checkoutVars>>
otherThanTrips == <<frontVars, regVars, mwVars, checkoutVars>>

---------------------------------------------------------------------------
(* Exact arithmetic on rationals <<n, d>> with d > 0, in lowest terms.     *)

Abs(x) == IF x < 0 THEN -x ELSE x

RECURSIVE Gcd(_, _)
Gcd(a, b) == IF b = 0 THEN a ELSE Gcd(b, a % b)

Norm(n, d) ==
    LET g == Gcd(Abs(n), Abs(d))
        s == IF d < 0 THEN -1 ELSE 1
    IN  <<(s * n) \div g, (s * d) \div g>>

R(n) == <<n, 1>>
RAdd(x, y) == Norm(x[1] * y[2] + y[1] * x[2], x[2] * y[2])
RSub(x, y) == Norm(x[1] * y[2] - y[1] * x[2], x[2] * y[2])
RMul(x, y) == Norm(x[1] * y[1], x[2] * y[2])
\* the divisor is never 0 here: expense amounts are positive and a division
\* by splits.length is only made inside a loop over a non-empty splits
RDiv(x, y) == Norm(x[1] * y[2], x[2] * y[1])

RECURSIVE RSum(_)
RSum(s) == IF s = <<>> THEN R(0) ELSE RAdd(Head(s), RSum(Tail(s)))

RECURSIVE ISum(_)
ISum(s) == IF s = <<>> THEN 0 ELSE Head(s) + ISum(Tail(s))

SeqMap(Op(_), s) == [i \in 1..Len(s) |-> Op(s[i])]

SeqFilter(Test(_), s) == SelectSeq(s, Test)

---------------------------------------------------------------------------
(* Bounds and input domains.                                               *)

MaxExpenses == 2

\* a whole number of currency units (or of percents), in ticks of 0.005
Amt(units) == units * 200

\* 0.01, the absolute tolerance of the validation checks, in ticks
Tolerance == 2

\* 100 (percent), in ticks
Hundred == Amt(100)

ExpenseIds == 1..MaxExpenses

\* "A" (the trip owner and acting user) and "B" (shared with) are the
\* participants of the trip; "C" is a user who is no longer one.
Participants == <<"A", "B">>
Outsider == "C"

StringPayer(u) == [kind |-> "string", userId |-> u]
ArrayPayer(ps) == [kind |-> "array", payers |-> ps]
Payer(u, a) == [userId |-> u, amount |-> a]

SplitOf(u) == [userId |-> u]
SplitAmt(u, a) == [userId |-> u, amount |-> a]
SplitPct(u, p) == [userId |-> u, percentage |-> p]

---------------------------------------------------------------------------
(* Split Calculator: calculateSplitAmount, in the expense's own currency.  *)

HasField(rec, f) == f \in DOMAIN rec

\* JavaScript `x.f || 0` on an optional number field
FieldOrZero(rec, f) == IF HasField(rec, f) THEN rec[f] ELSE 0

\* expense.splits.find((s) => s.userId === userId): the index of the first
\* entry of the participant, 0 when there is none
FindSplit(expense, userId) ==
    LET hits == {i \in 1..Len(expense.splits) : expense.splits[i].userId = userId}
    IN  IF hits = {} THEN 0 ELSE CHOOSE i \in hits : \A j \in hits : i <= j

calculateSplitAmountDropsPercent(expense, userId) ==
    LET i == FindSplit(expense, userId)
    IN  IF i = 0 THEN R(0)
        ELSE IF expense.splitMethod = "equal"
             THEN RDiv(R(expense.amount), R(Len(expense.splits)))
        ELSE IF expense.splitMethod = "custom-amount"
             THEN R(FieldOrZero(expense.splits[i], "amount"))
        ELSE IF expense.splitMethod = "custom-percentage"
             THEN R(FieldOrZero(expense.splits[i], "percentage"))
        ELSE R(0)

calculateSplitAmountAllParticipants(expense, userId) ==
    LET i == FindSplit(expense, userId)
    IN  IF i = 0 THEN R(0)
        ELSE IF expense.splitMethod = "equal"
             THEN RDiv(R(expense.amount), R(Len(Participants)))
        ELSE IF expense.splitMethod = "custom-amount"
             THEN R(FieldOrZero(expense.splits[i], "amount"))
        ELSE IF expense.splitMethod = "custom-percentage"
             THEN RDiv(RMul(R(expense.amount),
                            R(FieldOrZero(expense.splits[i], "percentage"))),
                       R(Hundred))
        ELSE R(0)

calculateSplitAmount(expense, userId) ==
    LET i == FindSplit(expense, userId)
    IN  IF i = 0 THEN R(0)
        ELSE IF expense.splitMethod = "equal"
             THEN RDiv(R(expense.amount), R(Len(expense.splits)))
        ELSE IF expense.splitMethod = "custom-amount"
             THEN R(FieldOrZero(expense.splits[i], "amount"))
        ELSE IF expense.splitMethod = "custom-percentage"
             THEN RDiv(RMul(R(expense.amount),
                            R(FieldOrZero(expense.splits[i], "percentage"))),
                       R(Hundred))
        ELSE R(0)

---------------------------------------------------------------------------
(* Balance Aggregator: the useMemo callback eurBalances.                   *)

\* convertedAmounts.get(expense.id) || expense.amount
ConvertedAmount(expense, converted) ==
    IF expense.id \in DOMAIN converted /\ converted[expense.id] # 0
    THEN converted[expense.id]
    ELSE expense.amount

\* participantBalances after the forEach over `balances`: keyed by userId,
\* totals reset to 0, the other fields of the input entry kept
InitParticipantBalances(input) ==
    [u \in {input[i].userId : i \in 1..Len(input)} |->
        LET last == CHOOSE i \in 1..Len(input) :
                        /\ input[i].userId = u
                        /\ \A j \in 1..Len(input) : input[j].userId = u => j <= i
        IN  [input[last] EXCEPT !.totalPaid = R(0), !.totalOwed = R(0),
                                !.balance = R(0)]]

CreditOnePayerOverwrites(pb, expense, payer, convertedAmount) ==
    IF payer.userId \in DOMAIN pb
    THEN [pb EXCEPT ![payer.userId].totalPaid =
            RMul(RDiv(R(payer.amount), R(expense.amount)), R(convertedAmount))]
    ELSE pb

\* one payer of a paidBy array
CreditOnePayer(pb, expense, payer, convertedAmount) ==
    IF payer.userId \in DOMAIN pb
    THEN [pb EXCEPT ![payer.userId].totalPaid =
            RAdd(@, RMul(RDiv(R(payer.amount), R(expense.amount)),
                         R(convertedAmount)))]
    ELSE pb

RECURSIVE CreditPayerList(_, _, _, _)
CreditPayerList(pb, expense, payers, convertedAmount) ==
    IF payers = <<>> THEN pb
    ELSE CreditPayerList(CreditOnePayer(pb, expense, Head(payers), convertedAmount),
                         expense, Tail(payers), convertedAmount)

CreditPayersFullToEach(pb, expense, convertedAmount) ==
    IF expense.paidBy.kind = "string"
    THEN IF expense.paidBy.userId \in DOMAIN pb
         THEN [pb EXCEPT ![expense.paidBy.userId].totalPaid =
                  RAdd(@, R(convertedAmount))]
         ELSE pb
    ELSE [u \in DOMAIN pb |->
            IF \E i \in 1..Len(expense.paidBy.payers) :
                   expense.paidBy.payers[i].userId = u
            THEN [pb[u] EXCEPT !.totalPaid = RAdd(@, R(convertedAmount))]
            ELSE pb[u]]

CreditPayers(pb, expense, convertedAmount) ==
    IF expense.paidBy.kind = "string"
    THEN IF expense.paidBy.userId \in DOMAIN pb
         THEN [pb EXCEPT ![expense.paidBy.userId].totalPaid =
                  RAdd(@, R(convertedAmount))]
         ELSE pb
    ELSE CreditPayerList(pb, expense, expense.paidBy.payers, convertedAmount)

\* `owedAmount` of one split entry, in the pivot currency
OwedAmountBySetSize(expense, split, convertedAmount) ==
    IF expense.splitMethod = "equal"
    THEN RDiv(R(convertedAmount), R(Len(Participants)))
    ELSE IF expense.splitMethod = "custom-amount" /\ FieldOrZero(split, "amount") # 0
    THEN RMul(RDiv(R(split.amount), R(expense.amount)), R(convertedAmount))
    ELSE IF expense.splitMethod = "custom-percentage"
            /\ FieldOrZero(split, "percentage") # 0
    THEN RDiv(RMul(R(convertedAmount), R(split.percentage)), R(Hundred))
    ELSE R(0)

OwedAmount(expense, split, convertedAmount) ==
    IF expense.splitMethod = "equal"
    THEN RDiv(R(convertedAmount), R(Len(expense.splits)))
    ELSE IF expense.splitMethod = "custom-amount" /\ FieldOrZero(split, "amount") # 0
    THEN RMul(RDiv(R(split.amount), R(expense.amount)), R(convertedAmount))
    ELSE IF expense.splitMethod = "custom-percentage"
            /\ FieldOrZero(split, "percentage") # 0
    THEN RDiv(RMul(R(convertedAmount), R(split.percentage)), R(Hundred))
    ELSE R(0)

DebitOneSplitAddsEntry(pb, expense, split, convertedAmount) ==
    IF split.userId \in DOMAIN pb
    THEN [pb EXCEPT ![split.userId].totalOwed =
            RAdd(@, OwedAmount(expense, split, convertedAmount))]
    ELSE [u \in DOMAIN pb \cup {split.userId} |->
            IF u \in DOMAIN pb THEN pb[u]
            ELSE [userId |-> u, name |-> u, totalPaid |-> R(0),
                  totalOwed |-> OwedAmount(expense, split, convertedAmount),
                  balance |-> R(0)]]

DebitOneSplit(pb, expense, split, convertedAmount) ==
    IF split.userId \in DOMAIN pb
    THEN [pb EXCEPT ![split.userId].totalOwed =
            RAdd(@, OwedAmount(expense, split, convertedAmount))]
    ELSE pb

RECURSIVE DebitSplitList(_, _, _, _)
DebitSplitList(pb, expense, splits, convertedAmount) ==
    IF splits = <<>> THEN pb
    ELSE DebitSplitList(DebitOneSplit(pb, expense, Head(splits), convertedAmount),
                        expense, Tail(splits), convertedAmount)

\* the body of expenses.forEach for one expense
FoldExpense(pb, expense, converted) ==
    LET convertedAmount == ConvertedAmount(expense, converted)
    IN  DebitSplitList(CreditPayers(pb, expense, convertedAmount),
                       expense, expense.splits, convertedAmount)

RECURSIVE FoldExpenses(_, _, _)
FoldExpenses(pb, exps, converted) ==
    IF exps = <<>> THEN pb
    ELSE FoldExpenses(FoldExpense(pb, Head(exps), converted), Tail(exps), converted)

\* p.balance = p.totalPaid - p.totalOwed
NetBalance(p) == [p EXCEPT !.balance = RSub(p.totalPaid, p.totalOwed)]

\* Object.values(participantBalances): the keys in the order they were first
\* inserted, which is the order of their first entry in the input
RECURSIVE ObjectValues(_, _, _)
ObjectValues(pb, order, seen) ==
    IF order = <<>> THEN <<>>
    ELSE IF Head(order) \in seen \/ Head(order) \notin DOMAIN pb
         THEN ObjectValues(pb, Tail(order), seen)
         ELSE <<pb[Head(order)]>>
                  \o ObjectValues(pb, Tail(order), seen \cup {Head(order)})

InsertionOrder(input, pb) ==
    LET given == [i \in 1..Len(input) |-> input[i].userId]
        extra == IF Outsider \in DOMAIN pb THEN <<Outsider>> ELSE <<>>
    IN  given \o extra

EurBalances(input, exps, converted) ==
    IF DOMAIN converted = {} THEN input
    ELSE LET pb == FoldExpenses(InitParticipantBalances(input), exps, converted)
         IN  SeqMap(NetBalance, ObjectValues(pb, InsertionOrder(input, pb), {}))

\* the chip of one split entry in the expense card: convertedSplit
SplitChip(expense, split, converted) ==
    LET splitAmount == calculateSplitAmount(expense, split.userId)
    IN  IF expense.id \in DOMAIN converted /\ converted[expense.id] # 0
        THEN RMul(RDiv(splitAmount, R(expense.amount)), R(converted[expense.id]))
        ELSE splitAmount

---------------------------------------------------------------------------
(* Inputs of the component: the props handed down by the parent page.      *)

InputBalance(u, paid, owed) ==
    [userId |-> u, name |-> u, totalPaid |-> R(paid), totalOwed |-> R(owed),
     balance |-> R(paid - owed)]

\* the `balances` prop: one entry per participant of the trip, with the
\* totals the parent computed (in the expenses' own currencies)
BalancesProps ==
    { <<InputBalance("A", 0, 0), InputBalance("B", 0, 0)>>,
      <<InputBalance("A", Amt(100), Amt(50)), InputBalance("B", 0, Amt(50))>> }

\* who paid an expense of 100.00
PaidByPool ==
    { StringPayer("A"),
      StringPayer(Outsider),
      ArrayPayer(<<Payer("A", Amt(60)), Payer("B", Amt(40))>>),
      ArrayPayer(<<Payer("A", Amt(60)), Payer("B", Amt(40) - 1)>>),
      ArrayPayer(<<Payer("A", Amt(60)), Payer(Outsider, Amt(40))>>) }

\* how an expense of 100.00 is split
SplitPool ==
    { [splitMethod |-> "equal", splits |-> <<SplitOf("A"), SplitOf("B")>>],
      [splitMethod |-> "equal", splits |-> <<SplitOf("B")>>],
      [splitMethod |-> "equal",
       splits |-> <<SplitOf("A"), SplitOf("B"), SplitOf(Outsider)>>],
      [splitMethod |-> "equal", splits |-> <<>>],
      [splitMethod |-> "custom-amount",
       splits |-> <<SplitAmt("A", Amt(60)), SplitAmt("B", Amt(40))>>],
      [splitMethod |-> "custom-amount",
       splits |-> <<SplitAmt("A", Amt(60)), SplitAmt("B", Amt(40) - 1)>>],
      [splitMethod |-> "custom-amount",
       splits |-> <<SplitAmt("A", Amt(100)), SplitAmt("B", 0)>>],
      [splitMethod |-> "custom-amount",
       splits |-> <<SplitAmt("B", Amt(100)), SplitOf("A")>>],
      [splitMethod |-> "custom-percentage",
       splits |-> <<SplitPct("A", Amt(50)), SplitPct("B", Amt(50))>>] }

\* how an expense of 90.00 is split: 33.34 %, 33.33 %, 33.33 %
PercentSplit ==
    [splitMethod |-> "custom-percentage",
     splits |-> <<SplitPct("A", Amt(33) + 68), SplitPct("B", Amt(33) + 66),
                  SplitPct(Outsider, Amt(33) + 66)>>]

MakeExpense(id, amount, paidBy, split) ==
    [id |-> id, title |-> "Dinner", amount |-> amount, currency |-> "USD",
     paidBy |-> paidBy, splitMethod |-> split.splitMethod,
     splits |-> split.splits]

\* the expenses a trip may hold (ids are given when one is added): every way
\* of paying with the first way of splitting, every way of splitting with
\* the first way of paying, an expense of 90.00 split by percentages, and
\* two expenses that mix the other ways
ExpensePool ==
    LET paidByA == StringPayer("A")
        equalAB == [splitMethod |-> "equal",
                    splits |-> <<SplitOf("A"), SplitOf("B")>>]
    IN  {MakeExpense(0, Amt(100), p, equalAB) : p \in PaidByPool}
          \cup {MakeExpense(0, Amt(100), paidByA, s) : s \in SplitPool}
          \cup {MakeExpense(0, Amt(90), paidByA, PercentSplit),
                MakeExpense(0, Amt(100),
                            ArrayPayer(<<Payer("A", Amt(60)), Payer("B", Amt(40))>>),
                            [splitMethod |-> "custom-amount",
                             splits |-> <<SplitAmt("A", Amt(60)),
                                          SplitAmt("B", Amt(40))>>]),
                MakeExpense(0, Amt(100), StringPayer(Outsider),
                            [splitMethod |-> "equal", splits |-> <<>>])}

\* pivot amounts a conversion pass may store for an expense: 92.00 EUR, or 0
PivotValues == {0, Amt(92)}

ConvertedMaps ==
    UNION {[ids -> PivotValues] : ids \in SUBSET ExpenseIds}

UsedIds(exps) == {exps[i].id : i \in 1..Len(exps)}

RemoveAt(s, i) == [j \in 1..(Len(s) - 1) |-> IF j < i THEN s[j] ELSE s[j + 1]]

---------------------------------------------------------------------------
(* The add/edit dialog: form state, handleSubmit, handleCloseDialog.       *)
(* Of the form's fields the model keeps those the validation reads and    *)
(* the currency; date, category, notes and the linked item are copied to  *)
(* the expense unread and are left out.                                    *)

\* the acting user (useAuth().user.id): the trip owner
UserId == "A"

\* editingExpense when no expense is being edited
Null == [null |-> TRUE]

EmptyMap == [k \in {} |-> 0]

\* { ...m, [k]: v }
MapSet(m, k, v) == [x \in DOMAIN m \cup {k} |-> IF x = k THEN v ELSE m[x]]

\* m[k] || 0
MapGetOrZero(m, k) == IF k \in DOMAIN m THEN m[k] ELSE 0

\* the initial formData, which is also the one handleCloseDialog sets
InitialFormData ==
    [title |-> "", amount |-> "", currency |-> "EUR", paidBy |-> UserId,
     multiplePayers |-> FALSE, payerAmounts |-> EmptyMap,
     splitMethod |-> "equal", selectedParticipants |-> <<>>,
     customAmounts |-> EmptyMap, customPercentages |-> EmptyMap]

\* what the user may type into the Title and the Amount field
TitleInputs == {"", "Dinner"}
AmountInputs == {"", "0", "100"}

\* what the user may type into a payer-amount, a custom-amount or a
\* custom-percentage field of a participant: nothing (0) or 60 for "A";
\* 40, 39.99 or 30 for "B"
NumberInputs(u) ==
    IF u = "A" THEN {0, Amt(60)} ELSE {Amt(40), Amt(40) - 2, Amt(30)}

NaN == [nan |-> TRUE]
Num(n) == [nan |-> FALSE, value |-> n]

\* parseFloat(formData.amount), on the strings of AmountInputs and on the
\* strings amount.toString() gives for the saved expenses
parseFloat(str) ==
    CASE str = "" -> NaN
      [] str = "0" -> Num(0)
      [] str = "100" -> Num(Amt(100))
      [] OTHER -> NaN

\* Number(formData.amount) || 0
NumberOrZero(str) ==
    CASE str = "100" -> Amt(100)
      [] OTHER -> 0

\* amount.toString()
toString(n) ==
    CASE n = Amt(100) -> "100"
      [] n = 0 -> "0"
      [] OTHER -> "NaN"

\* Object.entries(payerAmounts), as {userId, amount} records; the keys are
\* listed in one fixed order (the sums below do not depend on it)
KeyOrder == <<"", "A", "B">>

ObjectEntries(m) ==
    LET IsKey(k) == k \in DOMAIN m
        keys == SelectSeq(KeyOrder, IsKey)
    IN  [i \in 1..Len(keys) |-> Payer(keys[i], m[keys[i]])]

\* Math.abs(total - expected) > 0.01.  At a difference of exactly 0.01 the
\* IEEE-754 result depends on the rounding of the operands (99.99 - 100 is
\* found to exceed 0.01, 0.02 - 0.01 is not), so either answer is possible
\* there: `roundsUp` is that answer.
ExceedsTolerance(total, expected, roundsUp) ==
    \/ Abs(total - expected) > Tolerance
    \/ Abs(total - expected) = Tolerance /\ roundsUp

Alert(message) == [kind |-> "alert", message |-> message]

\* the splits array handleSubmit builds from the selected participants
BuildSplits(form) ==
    [i \in 1..Len(form.selectedParticipants) |->
        LET userId == form.selectedParticipants[i]
        IN  IF form.splitMethod = "custom-amount"
            THEN SplitAmt(userId, MapGetOrZero(form.customAmounts, userId))
            ELSE IF form.splitMethod = "custom-percentage"
            THEN SplitPct(userId, MapGetOrZero(form.customPercentages, userId))
            ELSE SplitOf(userId)]

\* the payer entries handleSubmit keeps: those with an amount > 0
PayerEntries(form) ==
    LET Positive(entry) == entry.amount > 0
    IN  SelectSeq(ObjectEntries(form.payerAmounts), Positive)

\* the `Validate splits` step: the alert it raises, or "none"
ValidateSplitsAmountOnly(form, amount, splits, roundsUp) ==
    IF form.splitMethod = "custom-amount"
          /\ ExceedsTolerance(ISum(SeqMap(LAMBDA sp : FieldOrZero(sp, "amount"), splits)),
                              amount, roundsUp)
    THEN Alert("Custom amounts must sum to the amount")
    ELSE [kind |-> "none"]

ValidateSplits(form, amount, splits, roundsUp) ==
    IF form.splitMethod = "custom-amount"
    THEN IF ExceedsTolerance(
                ISum(SeqMap(LAMBDA sp : FieldOrZero(sp, "amount"), splits)),
                amount, roundsUp)
         THEN Alert("Custom amounts must sum to the amount")
         ELSE [kind |-> "none"]
    ELSE IF form.splitMethod = "custom-percentage"
    THEN IF ExceedsTolerance(
                ISum(SeqMap(LAMBDA sp : FieldOrZero(sp, "percentage"), splits)),
                Hundred, roundsUp)
         THEN Alert("Custom percentages must sum to 100%")
         ELSE [kind |-> "none"]
    ELSE [kind |-> "none"]

\* the `Validate paidBy` step: the alert it raises, or the paidBy it builds
ValidatePaidByNoSumCheck(form, amount, roundsUp) ==
    IF form.multiplePayers
    THEN IF PayerEntries(form) = <<>>
         THEN Alert("Please specify who paid")
         ELSE [kind |-> "ok", paidBy |-> ArrayPayer(PayerEntries(form))]
    ELSE IF form.paidBy = ""
         THEN Alert("Please select who paid")
         ELSE [kind |-> "ok", paidBy |-> StringPayer(form.paidBy)]

ValidatePaidBy(form, amount, roundsUp) ==
    IF form.multiplePayers
    THEN LET payerEntries == PayerEntries(form)
             totalPaid == ISum(SeqMap(LAMBDA entry : entry.amount, payerEntries))
         IN  IF payerEntries = <<>>
             THEN Alert("Please specify who paid")
             ELSE IF ExceedsTolerance(totalPaid, amount, roundsUp)
             THEN Alert("Total paid must equal expense amount")
             ELSE [kind |-> "ok", paidBy |-> ArrayPayer(payerEntries)]
    ELSE IF form.paidBy = ""
         THEN Alert("Please select who paid")
         ELSE [kind |-> "ok", paidBy |-> StringPayer(form.paidBy)]

\* the required-field and amount checks: the alert, or "none"
ValidateRequiredNoAmountCheck(form) ==
    IF form.title = "" \/ form.amount = ""
    THEN Alert("Please fill in all required fields")
    ELSE [kind |-> "none"]

ValidateRequired(form) ==
    IF form.title = "" \/ form.amount = ""
    THEN Alert("Please fill in all required fields")
    ELSE IF parseFloat(form.amount).nan \/ parseFloat(form.amount).value <= 0
    THEN Alert("Please enter a valid amount")
    ELSE [kind |-> "none"]

\* handleSubmit up to its await: the alert it raises, or the call it makes
SubmitResult(form, editing, roundsUp) ==
    LET required == ValidateRequired(form)
    IN  IF required.kind = "alert" THEN required
        ELSE LET amount == parseFloat(form.amount).value
                 paid == ValidatePaidBy(form, amount, roundsUp)
                 splits == BuildSplits(form)
                 split == ValidateSplits(form, amount, splits, roundsUp)
             IN  IF paid.kind = "alert" THEN paid
                 ELSE IF split.kind = "alert" THEN split
                 ELSE LET expense ==
                            [title |-> form.title, amount |-> amount,
                             currency |-> form.currency, paidBy |-> paid.paidBy,
                             splitMethod |-> form.splitMethod, splits |-> splits]
                      IN  IF editing # Null
                          THEN [kind |-> "update", expenseId |-> editing.id,
                                expense |-> expense]
                          ELSE [kind |-> "add", expense |-> expense]

\* the form the `Load expense data when editing` effect sets
FormOfExpense(e) ==
    LET withAmount == {i \in 1..Len(e.splits) : HasField(e.splits[i], "amount")}
        withPct == {i \in 1..Len(e.splits) : HasField(e.splits[i], "percentage")}
        isMultiplePayers == e.paidBy.kind = "array"
    IN  [title |-> e.title, amount |-> toString(e.amount),
         currency |-> e.currency,
         paidBy |-> IF isMultiplePayers THEN "" ELSE e.paidBy.userId,
         multiplePayers |-> isMultiplePayers,
         payerAmounts |->
            IF isMultiplePayers
            THEN [u \in {e.paidBy.payers[i].userId : i \in 1..Len(e.paidBy.payers)} |->
                    LET last == CHOOSE i \in 1..Len(e.paidBy.payers) :
                                  /\ e.paidBy.payers[i].userId = u
                                  /\ \A j \in 1..Len(e.paidBy.payers) :
                                        e.paidBy.payers[j].userId = u => j <= i
                    IN  e.paidBy.payers[last].amount]
            ELSE EmptyMap,
         splitMethod |-> e.splitMethod,
         selectedParticipants |-> [i \in 1..Len(e.splits) |-> e.splits[i].userId],
         customAmounts |->
            [u \in {e.splits[i].userId : i \in withAmount} |->
                LET last == CHOOSE i \in withAmount :
                              /\ e.splits[i].userId = u
                              /\ \A j \in withAmount : e.splits[j].userId = u => j <= i
                IN  e.splits[last].amount],
         customPercentages |->
            [u \in {e.splits[i].userId : i \in withPct} |->
                LET last == CHOOSE i \in withPct :
                              /\ e.splits[i].userId = u
                              /\ \A j \in withPct : e.splits[j].userId = u => j <= i
                IN  e.splits[last].percentage]]

\* the form the `Initialize form when opening dialog` effect sets
FormForAdd ==
    [InitialFormData EXCEPT !.selectedParticipants = Participants]

\* the expenses of the trip the dialog can edit
SavedExpenses ==
    << MakeExpense(1, Amt(100), StringPayer("A"),
                   [splitMethod |-> "equal",
                    splits |-> <<SplitOf("A"), SplitOf("B")>>]),
       MakeExpense(2, Amt(100),
                   ArrayPayer(<<Payer("A", Amt(60)), Payer("B", Amt(40))>>),
                   [splitMethod |-> "custom-amount",
                    splits |-> <<SplitAmt("A", Amt(60)), SplitAmt("B", Amt(40))>>]) >>

---------------------------------------------------------------------------
(* Currency Rate Provider: services/currency.ts.  A converted value is a   *)
(* rational of ticks, or NotANumber (JavaScript's NaN).                    *)

NotANumber == <<0, 0>>
IsNaN(x) == x[2] = 0

\* a * b and a / b on values
VMul(a, b) == IF IsNaN(a) \/ IsNaN(b) THEN NotANumber ELSE RMul(a, b)
VDiv(a, b) == IF IsNaN(a) \/ IsNaN(b) THEN NotANumber ELSE RDiv(a, b)

\* 1 hour, in ticks of the clock (a tick is half an hour)
CACHE_DURATION == 2

Currencies == {"EUR", "USD", "ILS"}
TARGET_CURRENCY == "EUR"

\* `${fromCurrency}_${toCurrency}`
CacheKey(fromCurrency, toCurrency) == <<fromCurrency, toCurrency>>

\* the approximate rates of the catch block
fallbackRates ==
    (CacheKey("USD", "EUR") :> <<23, 25>>) @@ (CacheKey("GBP", "EUR") :> <<117, 100>>) @@
    (CacheKey("ILS", "EUR") :> <<1, 4>>) @@ (CacheKey("JPY", "EUR") :> <<31, 5000>>) @@
    (CacheKey("CAD", "EUR") :> <<17, 25>>) @@ (CacheKey("AUD", "EUR") :> <<61, 100>>) @@
    (CacheKey("CHF", "EUR") :> <<21, 20>>)

\* the `rate` strings the rate source may send for a pair
RateStrings(key) ==
    IF key = CacheKey("USD", "EUR") THEN {"0.9", "0.95", "n/a"}
    ELSE IF key = CacheKey("EUR", "USD") THEN {"1.1"}
    ELSE {"0.3"}

\* parseFloat(response.data.rates[toCurrency].rate)
parseFloatRate(str) ==
    CASE str = "0.9" -> <<9, 10>>
      [] str = "0.95" -> <<19, 20>>
      [] str = "1.1" -> <<11, 10>>
      [] str = "0.3" -> <<3, 10>>
      [] OTHER -> NotANumber

\* what the awaited currencyApi.get can give: a rejection (network or HTTP
\* error), a body without rates[toCurrency], or a body with it
Responses(key) ==
    {[kind |-> "error"], [kind |-> "noRate"]}
        \cup {[kind |-> "rate", rate |-> str] : str \in RateStrings(key)}

\* a return of convertCurrency: the value, and where the rate came from
Return(amount, fromCurrency, toCurrency, value, via) ==
    [amount |-> amount, fromCurrency |-> fromCurrency, toCurrency |-> toCurrency,
     value |-> value, via |-> via]

\* `cached && Date.now() - cached.timestamp < CACHE_DURATION`
CacheValidIgnoresAge(cache, key, time) == key \in DOMAIN cache

CacheValid(cache, key, time) ==
    /\ key \in DOMAIN cache
    /\ time - cache[key].timestamp < CACHE_DURATION

\* convertCurrency up to its await: the return it makes, or "await"
ConvertStartAlwaysLooksUp(amount, fromCurrency, toCurrency, cache, time) ==
    LET key == CacheKey(fromCurrency, toCurrency)
    IN  IF CacheValid(cache, key, time)
        THEN [kind |-> "return",
              return |-> Return(amount, fromCurrency, toCurrency,
                                VMul(amount, cache[key].rate), "cache")]
        ELSE [kind |-> "await"]

ConvertStart(amount, fromCurrency, toCurrency, cache, time) ==
    LET key == CacheKey(fromCurrency, toCurrency)
    IN  IF fromCurrency = toCurrency
        THEN [kind |-> "return",
              return |-> Return(amount, fromCurrency, toCurrency, amount, "same")]
        ELSE IF CacheValid(cache, key, time)
        THEN [kind |-> "return",
              return |-> Return(amount, fromCurrency, toCurrency,
                                VMul(amount, cache[key].rate), "cache")]
        ELSE [kind |-> "await"]

\* the catch block
Fallback(amount, fromCurrency, toCurrency) ==
    LET fallbackKey == CacheKey(fromCurrency, toCurrency)
        reverseKey == CacheKey(toCurrency, fromCurrency)
    IN  IF fallbackKey \in DOMAIN fallbackRates
        THEN Return(amount, fromCurrency, toCurrency,
                    VMul(amount, fallbackRates[fallbackKey]), "fallback")
        ELSE IF reverseKey \in DOMAIN fallbackRates
        THEN Return(amount, fromCurrency, toCurrency,
                    VDiv(amount, fallbackRates[reverseKey]), "reverse")
        ELSE Return(amount, fromCurrency, toCurrency, amount, "unconverted")

\* convertCurrency from its await on: the cache it leaves and its return
ConvertResumeCachesFallback(call, response, cache, time) ==
    LET key == CacheKey(call.fromCurrency, call.toCurrency)
        fb == Fallback(call.amount, call.fromCurrency, call.toCurrency)
    IN  IF response.kind = "rate"
        THEN LET rate == parseFloatRate(response.rate)
             IN  [cache |-> (key :> [rate |-> rate, timestamp |-> time]) @@ cache,
                  return |-> Return(call.amount, call.fromCurrency, call.toCurrency,
                                    VMul(call.amount, rate), "live")]
        ELSE [cache |-> IF fb.via = "fallback"
                        THEN (key :> [rate |-> fallbackRates[key],
                                      timestamp |-> time]) @@ cache
                        ELSE cache,
              return |-> fb]

ConvertResume(call, response, cache, time) ==
    IF response.kind = "rate"
    THEN LET key == CacheKey(call.fromCurrency, call.toCurrency)
             rate == parseFloatRate(response.rate)
         IN  [cache |-> (key :> [rate |-> rate, timestamp |-> time]) @@ cache,
              return |-> Return(call.amount, call.fromCurrency, call.toCurrency,
                                VMul(call.amount, rate), "live")]
    ELSE [cache |-> cache,
          return |-> Fallback(call.amount, call.fromCurrency, call.toCurrency)]

\* a call awaiting the rate source, and who awaits the call
Call(amount, fromCurrency, toCurrency, owner) ==
    [amount |-> amount, fromCurrency |-> fromCurrency, toCurrency |-> toCurrency,
     owner |-> owner]

NoBatch == [kind |-> "none"]

ServiceIdle ==
    /\ conversionCache = <<>>
    /\ now = 0
    /\ inflight = <<>>
    /\ returned = <<>>
    /\ batch = NoBatch

ViewIdle ==
    /\ displayCurrency = "EUR"
    /\ convertedTotal = R(0)

\* the token of a signed-in user, and none for no user
TokenOf(u) == IF u = Null THEN Null ELSE [jwt |-> u.id]

\* JSON.stringify(value): a text, not the value
JSONstringify(value) == [json |-> value]

\* JSON.parse(text)
JSONparse(text) == text.json

\* localStorage after setItem('authToken', token), setItem('user', ...),
\* and after both were removed
Persisted(u) ==
    IF u = Null THEN EmptyMap
    ELSE [authToken |-> TokenOf(u), user |-> JSONstringify(u)]

\* the AuthProvider at rest with u signed in (u = Null: nobody)
Session(u) ==
    /\ user = u
    /\ token = TokenOf(u)
    /\ localStorage = Persisted(u)
    /\ error = Null
    /\ authCalls = <<>>

\* the filters of the expense list as first rendered
FilterIdle ==
    /\ filterCategory = "all"
    /\ filterParticipant = "all"

\* the viewer of the specifications that do not vary it: the signed-in
\* participant, on a trip they own and may edit
ViewerIdle ==
    /\ permission = "edit"
    /\ Session([id |-> UserId])
    /\ isOwner = TRUE
    /\ FilterIdle

\* the trips API before any request
TripsIdle ==
    /\ trips = <<>>
    /\ database = TRUE
    /\ requests = <<>>
    /\ answered = <<>>

\* the auth routes before any request
RegIdle ==
    /\ users = <<>>
    /\ registrations = <<>>
    /\ registered = <<>>

\* the auth middleware before any request
MwIdle ==
    /\ verifying = <<>>
    /\ verified = <<>>

\* the smart-checkout route before any request
CheckoutIdle ==
    /\ checkoutRequest = Null
    /\ checkoutResponse = Null

BackIdle ==
    /\ TripsIdle
    /\ RegIdle
    /\ MwIdle
    /\ CheckoutIdle

---------------------------------------------------------------------------
(* The aggregator as the component runs it: every change of a dependency   *)
(* of the useMemo (balances, expenses, convertedAmounts) re-renders and    *)
(* recomputes eurBalances.                                                 *)

FormIdle ==
    /\ formData = InitialFormData
    /\ addDialogOpen = FALSE
    /\ editingExpense = Null
    /\ outcome = [kind |-> "none"]
    /\ pending = 0
    /\ edits = 0

\* the component of the specifications of the backend: a trip without
\* expenses
FrontIdle ==
    /\ balances = [i \in 1..Len(Participants) |-> InputBalance(Participants[i], 0, 0)]
    /\ expenses = <<>>
    /\ convertedAmounts = <<>>
    /\ eurBalances = EurBalances(balances, expenses, convertedAmounts)
    /\ FormIdle
    /\ ServiceIdle
    /\ ViewIdle
    /\ ViewerIdle

AggInit ==
    /\ balances \in BalancesProps
    /\ expenses = <<>>
    /\ convertedAmounts = <<>>
    /\ eurBalances = EurBalances(balances, expenses, convertedAmounts)
    /\ FormIdle
    /\ ServiceIdle
    /\ ViewIdle
    /\ ViewerIdle
    /\ BackIdle

\* the parent stored a new expense and handed down the new trip
ParentAddsExpense ==
    /\ Len(expenses) < MaxExpenses
    /\ \E e \in ExpensePool :
         LET id == CHOOSE i \in ExpenseIds \ UsedIds(expenses) :
                       \A j \in ExpenseIds \ UsedIds(expenses) : i <= j
         IN  expenses' = Append(expenses, [e EXCEPT !.id = id])
    /\ eurBalances' = EurBalances(balances, expenses', convertedAmounts)
    /\ UNCHANGED <<balances, convertedAmounts>>
    /\ UNCHANGED <<formVars, convVars, viewVars, backVars, listVars>>

\* the parent deleted an expense and handed down the new trip
ParentDeletesExpense ==
    /\ \E i \in 1..Len(expenses) : expenses' = RemoveAt(expenses, i)
    /\ eurBalances' = EurBalances(balances, expenses', convertedAmounts)
    /\ UNCHANGED <<balances, convertedAmounts>>
    /\ UNCHANGED <<formVars, convVars, viewVars, backVars, listVars>>

\* setConvertedAmounts(conversions) at the end of a conversion pass; the map
\* is any map a pass (of this or of an earlier expense list) can hold
SetConvertedAmounts ==
    /\ \E m \in ConvertedMaps : convertedAmounts' = m
    /\ eurBalances' = EurBalances(balances, expenses, convertedAmounts')
    /\ UNCHANGED <<balances, expenses>>
    /\ UNCHANGED <<formVars, convVars, viewVars, backVars, listVars>>

AggNext ==
    \/ ParentAddsExpense
    \/ ParentDeletesExpense
    \/ SetConvertedAmounts

SpecAgg == AggInit /\ [][AggNext]_vars

---------------------------------------------------------------------------
(* The dialog as the user drives it.  An effect runs with the handler that *)
(* triggers it.  The trip shown is SavedExpenses and stays as it is: the   *)
(* parent's refresh after a save is ParentAddsExpense above.  A dialog     *)
(* session takes at most MaxEdits field changes, and at most MaxPending    *)
(* persistence calls are awaited at a time.                                *)

MaxEdits == 4
MaxPending == 2

None == [kind |-> "none"]

FormInit ==
    /\ balances = [i \in 1..Len(Participants) |-> InputBalance(Participants[i], 0, 0)]
    /\ expenses = SavedExpenses
    /\ convertedAmounts = <<>>
    /\ eurBalances = EurBalances(balances, expenses, convertedAmounts)
    /\ FormIdle
    /\ ServiceIdle
    /\ ViewIdle
    /\ ViewerIdle
    /\ BackIdle

\* a field's onChange: setFormData({...formData, ...})
Edit(form) ==
    /\ addDialogOpen
    /\ edits < MaxEdits
    /\ formData' = form
    /\ edits' = edits + 1
    /\ outcome' = None
    /\ UNCHANGED <<aggVars, convVars, viewVars, backVars, listVars, addDialogOpen, editingExpense, pending>>

\* the Add Expense button, with the `Initialize form` effect
OpenAddDialog ==
    /\ ~addDialogOpen
    /\ addDialogOpen' = TRUE
    /\ formData' = FormForAdd
    /\ edits' = 0
    /\ outcome' = None
    /\ UNCHANGED <<aggVars, convVars, viewVars, backVars, listVars, editingExpense, pending>>

\* handleEditExpense, with the `Load expense data` effect
handleEditExpense ==
    \E i \in 1..Len(expenses) :
        /\ ~addDialogOpen
        /\ editingExpense' = expenses[i]
        /\ formData' = FormOfExpense(expenses[i])
        /\ addDialogOpen' = TRUE
        /\ edits' = 0
        /\ outcome' = None
        /\ UNCHANGED <<aggVars, convVars, viewVars, backVars, listVars, pending>>

SetTitle ==
    \E value \in TitleInputs :
        /\ value # formData.title
        /\ Edit([formData EXCEPT !.title = value])

SetAmount ==
    \E value \in AmountInputs :
        /\ value # formData.amount
        /\ Edit([formData EXCEPT !.amount = value])

SetPaidBy ==
    \E i \in 1..Len(Participants) :
        /\ ~formData.multiplePayers
        /\ Participants[i] # formData.paidBy
        /\ Edit([formData EXCEPT !.paidBy = Participants[i]])

ToggleMultiplePayers ==
    \E multiplePayers \in {~formData.multiplePayers} :
        Edit([formData EXCEPT
                !.multiplePayers = multiplePayers,
                !.payerAmounts =
                    IF multiplePayers
                    THEN MapSet(EmptyMap, formData.paidBy,
                                NumberOrZero(formData.amount))
                    ELSE EmptyMap])

SetPayerAmount ==
    \E i \in 1..Len(Participants) :
        \E value \in NumberInputs(Participants[i]) :
            /\ formData.multiplePayers
            /\ Edit([formData EXCEPT !.payerAmounts =
                        MapSet(formData.payerAmounts, Participants[i], value)])

SetSplitMethod ==
    \E method \in {"equal", "custom-amount", "custom-percentage"} :
        /\ method # formData.splitMethod
        /\ Edit([formData EXCEPT !.splitMethod = method])

Includes(seq, x) == \E j \in 1..Len(seq) : seq[j] = x

ToggleParticipant ==
    \E i \in 1..Len(Participants) :
        LET userId == Participants[i]
            selected == formData.selectedParticipants
            Others(id) == id # userId
        IN  /\ addDialogOpen
            /\ Edit([formData EXCEPT !.selectedParticipants =
                        IF Includes(selected, userId)
                        THEN SelectSeq(selected, Others)
                        ELSE Append(selected, userId)])

SetCustomAmount ==
    \E i \in 1..Len(Participants) :
        \E value \in NumberInputs(Participants[i]) :
            /\ Includes(formData.selectedParticipants, Participants[i])
            /\ formData.splitMethod = "custom-amount"
            /\ Edit([formData EXCEPT !.customAmounts =
                        MapSet(formData.customAmounts, Participants[i], value)])

SetCustomPercentage ==
    \E i \in 1..Len(Participants) :
        \E value \in NumberInputs(Participants[i]) :
            /\ Includes(formData.selectedParticipants, Participants[i])
            /\ formData.splitMethod = "custom-percentage"
            /\ Edit([formData EXCEPT !.customPercentages =
                        MapSet(formData.customPercentages, Participants[i], value)])

\* handleSubmit up to its return or its await
handleSubmit ==
    \E roundsUp \in BOOLEAN :
        LET result == SubmitResult(formData, editingExpense, roundsUp)
        IN  /\ addDialogOpen
            /\ outcome' = result
            /\ IF result.kind = "alert"
               THEN pending' = pending
               ELSE /\ pending < MaxPending
                    /\ pending' = pending + 1
            /\ UNCHANGED <<aggVars, convVars, viewVars, backVars, listVars, formData, addDialogOpen, editingExpense, edits>>

\* the Cancel button and the dialog's onClose
handleCloseDialog ==
    /\ addDialogOpen
    /\ addDialogOpen' = FALSE
    /\ editingExpense' = Null
    /\ formData' = InitialFormData
    /\ edits' = 0
    /\ outcome' = None
    /\ UNCHANGED <<aggVars, convVars, viewVars, backVars, listVars, pending>>

\* the awaited onAddExpense / onUpdateExpense resolves: handleSubmit goes
\* on to handleCloseDialog()
PersistenceResolves ==
    /\ pending > 0
    /\ pending' = pending - 1
    /\ addDialogOpen' = FALSE
    /\ editingExpense' = Null
    /\ formData' = InitialFormData
    /\ edits' = 0
    /\ outcome' = [kind |-> "resolved"]
    /\ UNCHANGED <<aggVars, convVars, viewVars, backVars, listVars>>

\* the awaited call rejects: handleSubmit ends there
PersistenceRejects ==
    /\ pending > 0
    /\ pending' = pending - 1
    /\ outcome' = [kind |-> "rejected"]
    /\ UNCHANGED <<aggVars, convVars, viewVars, backVars, listVars, formData, addDialogOpen, editingExpense, edits>>

FormNext ==
    \/ OpenAddDialog
    \/ handleEditExpense
    \/ SetTitle
    \/ SetAmount
    \/ SetPaidBy
    \/ ToggleMultiplePayers
    \/ SetPayerAmount
    \/ SetSplitMethod
    \/ ToggleParticipant
    \/ SetCustomAmount
    \/ SetCustomPercentage
    \/ handleSubmit
    \/ handleCloseDialog
    \/ PersistenceResolves
    \/ PersistenceRejects

SpecForm == FormInit /\ [][FormNext]_vars

---------------------------------------------------------------------------
(* The rate provider as its callers drive it: single convertCurrency calls *)
(* and convertMultipleCurrencies fan-outs, the rate source answering the   *)
(* awaited requests in any order, the clock advancing in between.  A call  *)
(* that returns without awaiting returns in the step that makes it.        *)

MaxTime == 2
MaxInflight == 2

ClientAmounts == {Amt(100)}
ClientPairs ==
    {<<"USD", "EUR">>, <<"EUR", "USD">>, <<"USD", "ILS">>, <<"EUR", "EUR">>}

\* the argument lists of convertMultipleCurrencies, all to EUR
BatchItems ==
    { << [amount |-> Amt(100), currency |-> "USD"],
         [amount |-> Amt(50), currency |-> "USD"] >>,
      << [amount |-> Amt(50), currency |-> "EUR"],
         [amount |-> Amt(100), currency |-> "USD"] >> }

Client == [kind |-> "client"]
BatchOwner(i) == [kind |-> "batch", index |-> i]

ConvInit ==
    /\ balances = [i \in 1..Len(Participants) |-> InputBalance(Participants[i], 0, 0)]
    /\ expenses = <<>>
    /\ convertedAmounts = <<>>
    /\ eurBalances = EurBalances(balances, expenses, convertedAmounts)
    /\ FormIdle
    /\ ServiceIdle
    /\ ViewIdle
    /\ ViewerIdle
    /\ BackIdle

\* a caller awaits convertCurrency(amount, fromCurrency, toCurrency)
ClientCalls ==
    \E amount \in ClientAmounts, pair \in ClientPairs :
        LET start == ConvertStart(R(amount), pair[1], pair[2], conversionCache, now)
        IN  /\ IF start.kind = "return"
               THEN /\ returned' = <<start.return>>
                    /\ inflight' = inflight
               ELSE /\ Len(inflight) < MaxInflight
                    /\ returned' = <<>>
                    /\ inflight' = Append(inflight,
                                     Call(R(amount), pair[1], pair[2], Client))
            /\ UNCHANGED <<conversionCache, now, batch>>
            /\ UNCHANGED <<aggVars, formVars, viewVars, backVars, listVars>>

\* reduce((sum, val) => sum + val, 0)
RECURSIVE VSum(_)
VSum(values) ==
    IF values = <<>> THEN R(0)
    ELSE LET rest == VSum(Tail(values))
         IN  IF IsNaN(Head(values)) \/ IsNaN(rest) THEN NotANumber
             ELSE RAdd(Head(values), rest)

\* the batch once a result is in: done when Promise.all has them all
BatchWithArrivalOrder(b, i, value) ==
    LET results == Append(b.results, value)
    IN  IF DOMAIN results = 1..Len(b.items)
        THEN [kind |-> "done", items |-> b.items, results |-> results,
              total |-> VSum(results)]
        ELSE [b EXCEPT !.results = results]

BatchWith(b, i, value) ==
    LET results == (i :> value) @@ b.results
    IN  IF DOMAIN results = 1..Len(b.items)
        THEN [kind |-> "done", items |-> b.items, results |-> results,
              total |-> VSum([k \in 1..Len(b.items) |-> results[k]])]
        ELSE [b EXCEPT !.results = results]

\* the fan-out of convertMultipleCurrencies: every convertCurrency call is
\* made, in order, before any awaited answer is looked at
RECURSIVE FanOut(_, _, _, _)
FanOut(items, i, targetCurrency, acc) ==
    IF i > Len(items) THEN acc
    ELSE LET start == ConvertStart(R(items[i].amount), items[i].currency,
                                   targetCurrency, conversionCache, now)
         IN  FanOut(items, i + 1, targetCurrency,
                IF start.kind = "return"
                THEN [acc EXCEPT
                        !.returned = Append(@, start.return),
                        !.batch = BatchWith(@, i, start.return.value)]
                ELSE [acc EXCEPT
                        !.inflight = Append(@,
                            Call(R(items[i].amount), items[i].currency,
                                 targetCurrency, BatchOwner(i)))])

convertMultipleCurrencies ==
    \E items \in BatchItems :
        LET out == FanOut(items, 1, TARGET_CURRENCY,
                      [returned |-> <<>>, inflight |-> inflight,
                       batch |-> [kind |-> "running", items |-> items,
                                  results |-> <<>>]])
        IN  /\ batch.kind # "running"
            /\ Len(out.inflight) <= MaxInflight
            /\ returned' = out.returned
            /\ inflight' = out.inflight
            /\ batch' = out.batch
            /\ UNCHANGED <<conversionCache, now>>
            /\ UNCHANGED <<aggVars, formVars, viewVars, backVars, listVars>>

\* the rate source answers (or fails) an awaited request; convertCurrency
\* resumes and returns to its caller
SourceResponds ==
    \E i \in 1..Len(inflight) :
        \E response \in Responses(CacheKey(inflight[i].fromCurrency,
                                           inflight[i].toCurrency)) :
            LET call == inflight[i]
                resume == ConvertResume(call, response, conversionCache, now)
            IN  /\ call.owner.kind \in {"client", "batch"}
                /\ conversionCache' = resume.cache
                /\ returned' = <<resume.return>>
                /\ inflight' = RemoveAt(inflight, i)
                /\ batch' = IF call.owner.kind = "batch"
                            THEN BatchWith(batch, call.owner.index, resume.return.value)
                            ELSE batch
                /\ now' = now
                /\ UNCHANGED <<aggVars, formVars, viewVars, backVars, listVars>>

\* time passes
Tick ==
    /\ now < MaxTime
    /\ now' = now + 1
    /\ returned' = <<>>
    /\ UNCHANGED <<conversionCache, inflight, batch>>
    /\ UNCHANGED <<aggVars, formVars, viewVars, backVars, listVars>>

ConvNext ==
    \/ ClientCalls
    \/ convertMultipleCurrencies
    \/ SourceResponds
    \/ Tick

SpecConv == ConvInit /\ [][ConvNext]_vars

---------------------------------------------------------------------------
(* The component's conversion effects: the pass over the expenses          *)
(* (convertExpenses) and the Total Converter (convertTotal), each awaiting *)
(* convertCurrency.  An effect runs in the step that changes one of its    *)
(* dependencies, and code that follows an await that does not wait for the *)
(* rate source runs in the same step.  Here convertedAmounts holds the     *)
(* values convertCurrency returned; the aggregator reads them as ticks.    *)

\* the expense lists the parent hands down: none, one of 100 ILS, that one
\* and one of 50 EUR, one of 0 ILS
ViewExpense(id, amount, currency) ==
    [MakeExpense(id, amount, StringPayer("A"),
                 [splitMethod |-> "equal",
                  splits |-> <<SplitOf("A"), SplitOf("B")>>])
        EXCEPT !.currency = currency]

ViewLists ==
    { <<>>,
      <<ViewExpense(1, Amt(100), "ILS")>>,
      <<ViewExpense(1, Amt(100), "ILS"), ViewExpense(2, Amt(50), "EUR")>>,
      <<ViewExpense(3, 0, "ILS")>> }

DisplayCurrencies == {"EUR", "USD"}

\* convertedAmounts.get(id) as the aggregator takes it: NaN is as falsy as 0
PivotTicks(converted) ==
    [id \in DOMAIN converted |->
        IF IsNaN(converted[id]) THEN 0
        ELSE converted[id][1] \div converted[id][2]]

\* Array.from(convertedAmounts.values()).reduce((sum, amt) => sum + amt, 0)
RECURSIVE ValuesSum(_, _)
ValuesSum(converted, ids) ==
    IF ids = {} THEN R(0)
    ELSE LET id == CHOOSE x \in ids : TRUE
             rest == ValuesSum(converted, ids \ {id})
         IN  IF IsNaN(converted[id]) \/ IsNaN(rest) THEN NotANumber
             ELSE RAdd(converted[id], rest)

eurTotalExpenses(converted) == ValuesSum(converted, DOMAIN converted)

TotalOwner == [kind |-> "total"]
PassOwner(list, index, conversions) ==
    [kind |-> "pass", list |-> list, index |-> index, conversions |-> conversions]

\* the part of the state the effects work on
Workspace ==
    [cache |-> conversionCache, inflight |-> inflight, returned |-> <<>>,
     convertedAmounts |-> convertedAmounts, convertedTotal |-> convertedTotal]

\* convertTotal()
convertTotalAlwaysConverts(total, currency, ws) ==
    LET start == ConvertStart(total, TARGET_CURRENCY, currency, ws.cache, now)
    IN  IF start.kind = "return"
        THEN [ws EXCEPT !.returned = Append(@, start.return),
                        !.convertedTotal = start.return.value]
        ELSE [ws EXCEPT !.inflight =
                Append(@, Call(total, TARGET_CURRENCY, currency, TotalOwner))]

convertTotal(total, currency, ws) ==
    IF ~IsNaN(total) /\ total[1] > 0
    THEN LET start == ConvertStart(total, TARGET_CURRENCY, currency, ws.cache, now)
         IN  IF start.kind = "return"
             THEN [ws EXCEPT !.returned = Append(@, start.return),
                             !.convertedTotal = start.return.value]
             ELSE [ws EXCEPT !.inflight =
                     Append(@, Call(total, TARGET_CURRENCY, currency, TotalOwner))]
    ELSE [ws EXCEPT !.convertedTotal = R(0)]

\* the convertTotal effect: runs when eurTotalExpenses or displayCurrency
\* changed
TotalEffect(currency, ws) ==
    IF \/ eurTotalExpenses(ws.convertedAmounts) # eurTotalExpenses(convertedAmounts)
       \/ currency # displayCurrency
    THEN convertTotal(eurTotalExpenses(ws.convertedAmounts), currency, ws)
    ELSE ws

\* convertExpenses() from the expense at `index` on: the loop up to the
\* call that waits for the rate source, or to setConvertedAmounts
RECURSIVE convertExpenses(_, _, _, _)
convertExpenses(list, index, conversions, ws) ==
    IF index > Len(list)
    THEN [ws EXCEPT !.convertedAmounts = conversions]
    ELSE LET expense == list[index]
             start == ConvertStart(R(expense.amount), expense.currency,
                                   TARGET_CURRENCY, ws.cache, now)
         IN  IF start.kind = "return"
             THEN convertExpenses(list, index + 1,
                     (expense.id :> start.return.value) @@ conversions,
                     [ws EXCEPT !.returned = Append(@, start.return)])
             ELSE [ws EXCEPT !.inflight =
                     Append(@, Call(R(expense.amount), expense.currency,
                                    TARGET_CURRENCY,
                                    PassOwner(list, index, conversions)))]

\* the state a step leaves, from the workspace its handlers and effects left
Commit(list, currency, ws) ==
    /\ Len(ws.inflight) <= MaxInflight
    /\ expenses' = list
    /\ displayCurrency' = currency
    /\ conversionCache' = ws.cache
    /\ inflight' = ws.inflight
    /\ returned' = ws.returned
    /\ convertedAmounts' = ws.convertedAmounts
    /\ convertedTotal' = ws.convertedTotal
    /\ eurBalances' = EurBalances(balances, list, PivotTicks(ws.convertedAmounts))
    /\ UNCHANGED <<balances, now, batch, formVars, listVars, backVars>>

ViewInit ==
    /\ balances = [i \in 1..Len(Participants) |-> InputBalance(Participants[i], 0, 0)]
    /\ expenses = <<>>
    /\ convertedAmounts = <<>>
    /\ eurBalances = EurBalances(balances, expenses, convertedAmounts)
    /\ FormIdle
    /\ ServiceIdle
    /\ ViewIdle
    /\ ViewerIdle
    /\ BackIdle

\* the parent hands down a trip whose expense list changed (an expense was
\* created, edited or deleted): the convertExpenses effect runs
TripChanges ==
    \E list \in ViewLists :
        /\ list # expenses
        /\ Commit(list, displayCurrency,
                  TotalEffect(displayCurrency,
                      IF Len(list) > 0
                      THEN convertExpenses(list, 1, <<>>, Workspace)
                      ELSE Workspace))

\* the select of the Total Expenses card
SetDisplayCurrency ==
    \E currency \in DisplayCurrencies :
        /\ currency # displayCurrency
        /\ Commit(expenses, currency, TotalEffect(currency, Workspace))

\* the rate source answers (or fails) a request of a pass or of the Total
\* Converter; convertCurrency resumes, and its caller after it
ViewSourceResponds ==
    \E i \in 1..Len(inflight) :
        \E response \in Responses(CacheKey(inflight[i].fromCurrency,
                                           inflight[i].toCurrency)) :
            LET call == inflight[i]
                resume == ConvertResume(call, response, conversionCache, now)
                ws == [Workspace EXCEPT !.cache = resume.cache,
                                        !.inflight = RemoveAt(inflight, i),
                                        !.returned = <<resume.return>>]
            IN  /\ call.owner.kind \in {"pass", "total"}
                /\ Commit(expenses, displayCurrency,
                      IF call.owner.kind = "total"
                      THEN [ws EXCEPT !.convertedTotal = resume.return.value]
                      ELSE TotalEffect(displayCurrency,
                              convertExpenses(call.owner.list, call.owner.index + 1,
                                  (call.owner.list[call.owner.index].id
                                        :> resume.return.value)
                                      @@ call.owner.conversions,
                                  ws)))

ViewTick ==
    /\ now < MaxTime
    /\ now' = now + 1
    /\ returned' = <<>>
    /\ UNCHANGED <<conversionCache, inflight, batch>>
    /\ UNCHANGED <<aggVars, formVars, viewVars, backVars, listVars>>

ViewNext ==
    \/ TripChanges
    \/ SetDisplayCurrency
    \/ ViewSourceResponds
    \/ ViewTick

SpecView == ViewInit /\ [][ViewNext]_vars

---------------------------------------------------------------------------
(* The expense list: the edit and delete buttons of an expense card and    *)
(* their handlers, under specification SpecList.                           *)

Permissions == {"view", "edit"}

\* useAuth().user
AuthUsers == {Null} \cup {[id |-> Participants[i]] : i \in 1..Len(Participants)}

\* an expense as the trip holds it, with the user who created it
WithCreator(expense, creator) ==
    [f \in DOMAIN expense \cup {"createdBy"} |->
        IF f = "createdBy" THEN creator ELSE expense[f]]

\* the trips of the list: the saved expenses, each created by a participant
ListedExpenses ==
    { [i \in 1..Len(SavedExpenses) |->
          WithCreator(SavedExpenses[i], Participants[creators[i]])] :
        creators \in [1..Len(SavedExpenses) -> 1..Len(Participants)] }

canEditAnyExpense(expense) == TRUE

\* const canEdit = user?.id === expense.createdBy || trip.isOwner
canEdit(expense) ==
    \/ user # Null /\ user.id = expense.createdBy
    \/ isOwner

\* {permission === 'edit' && canEdit && ( <edit button> <delete button> )}
ButtonsRendered(expense) == permission = "edit" /\ canEdit(expense)

\* handleDeleteExpense: what confirm() answered and the calls of
\* onDeleteExpense that followed
handleDeleteExpense(expenseId, answer) ==
    [kind |-> "handleDeleteExpense", expenseId |-> expenseId,
     confirm |-> answer,
     onDeleteExpense |-> IF answer THEN <<expenseId>> ELSE <<>>]

ListInit ==
    /\ balances = [i \in 1..Len(Participants) |-> InputBalance(Participants[i], 0, 0)]
    /\ expenses \in ListedExpenses
    /\ convertedAmounts = <<>>
    /\ eurBalances = EurBalances(balances, expenses, convertedAmounts)
    /\ FormIdle
    /\ ServiceIdle
    /\ ViewIdle
    /\ permission \in Permissions
    /\ \E u \in AuthUsers : Session(u)
    /\ isOwner \in BOOLEAN
    /\ FilterIdle
    /\ BackIdle

\* the edit button of a card
ClickEdit ==
    \E i \in 1..Len(expenses) :
        /\ ButtonsRendered(expenses[i])
        /\ editingExpense' = expenses[i]
        /\ handleEditExpense

\* the delete button of a card, and the user's answer to confirm()
ClickDelete ==
    \E i \in 1..Len(expenses) :
        \E answer \in BOOLEAN :
            /\ ~addDialogOpen
            /\ ButtonsRendered(expenses[i])
            /\ outcome' = handleDeleteExpense(expenses[i].id, answer)
            /\ UNCHANGED <<aggVars, convVars, viewVars, backVars, listVars, formData,
                           addDialogOpen, editingExpense, pending, edits>>

\* the parent renders the component for another viewer: the permission and
\* trip props or the signed-in user changed
ViewerChanges ==
    /\ permission' \in Permissions
    /\ isOwner' \in BOOLEAN
    /\ \E u \in AuthUsers :
          /\ user' = u
          /\ token' = TokenOf(u)
          /\ localStorage' = Persisted(u)
    /\ UNCHANGED <<error, authCalls, filterVars>>
    /\ listVars' # listVars
    /\ UNCHANGED <<aggVars, formVars, convVars, viewVars, backVars>>

ListNext ==
    \/ ClickEdit
    \/ ClickDelete
    \/ handleCloseDialog
    \/ ViewerChanges

SpecList == ListInit /\ [][ListNext]_vars

---------------------------------------------------------------------------
(* The filters of the expense list: filteredExpenses, under specification  *)
(* SpecFilter.                                                             *)

Categories == {"food", "transport"}

WithCategory(expense, category) ==
    [f \in DOMAIN expense \cup {"category"} |->
        IF f = "category" THEN category ELSE expense[f]]

\* the expenses a trip can hold: paid by one participant or by several,
\* split among both participants or charged to one
FilterPool ==
    LET both == [splitMethod |-> "equal", splits |-> <<SplitOf("A"), SplitOf("B")>>]
        onlyB == [splitMethod |-> "equal", splits |-> <<SplitOf("B")>>]
        severalPayers == ArrayPayer(<<Payer("A", Amt(60)), Payer("B", Amt(40))>>)
    IN  << WithCategory(MakeExpense(1, Amt(100), StringPayer("A"), both), "food"),
           WithCategory(MakeExpense(2, Amt(100), StringPayer("A"), onlyB), "transport"),
           WithCategory(MakeExpense(3, Amt(100), StringPayer("B"), onlyB), "food"),
           WithCategory(MakeExpense(4, Amt(100), severalPayers, onlyB), "transport") >>

\* trip.expenses: up to two expenses of the pool
FilterLists ==
    {<<>>} \cup {<<FilterPool[i]>> : i \in 1..Len(FilterPool)}
           \cup {<<FilterPool[i], FilterPool[j]>> :
                    i \in 1..Len(FilterPool), j \in (1..Len(FilterPool))}

\* expense.splits.some((s) => s.userId === participant)
SomeSplitOf(expense, participant) ==
    \E i \in 1..Len(expense.splits) : expense.splits[i].userId = participant

\* expense.paidBy !== participant: paidBy is a user id or a list of payers,
\* and a list is never identical to a user id
PaidByIsNot(expense, participant) ==
    IF expense.paidBy.kind = "string"
    THEN expense.paidBy.userId # participant
    ELSE TRUE

\* const filteredExpenses = expenses.filter(...)
filteredExpenses(list, category, participant) ==
    LET Keep(expense) ==
            IF category # "all" /\ expense.category # category
            THEN FALSE
            ELSE IF participant # "all"
                    /\ PaidByIsNot(expense, participant)
                    /\ ~SomeSplitOf(expense, participant)
            THEN FALSE
            ELSE TRUE
    IN  SelectSeq(list, Keep)

FilterInit ==
    /\ balances = [i \in 1..Len(Participants) |-> InputBalance(Participants[i], 0, 0)]
    /\ expenses \in {list \in FilterLists :
                        \A i, j \in 1..Len(list) : list[i].id = list[j].id => i = j}
    /\ convertedAmounts = <<>>
    /\ eurBalances = EurBalances(balances, expenses, convertedAmounts)
    /\ FormIdle
    /\ ServiceIdle
    /\ ViewIdle
    /\ ViewerIdle
    /\ BackIdle

\* the Category select
SetFilterCategory ==
    \E category \in Categories \cup {"all"} :
        /\ filterCategory' = category
        /\ UNCHANGED <<aggVars, formVars, convVars, viewVars, backVars,
                       permission, isOwner, sessionVars, filterParticipant>>

\* the Participant select: All Participants, or one of allParticipants
SetFilterParticipant ==
    \E participant \in {Participants[i] : i \in 1..Len(Participants)} \cup {"all"} :
        /\ filterParticipant' = participant
        /\ UNCHANGED <<aggVars, formVars, convVars, viewVars, backVars,
                       permission, isOwner, sessionVars, filterCategory>>

FilterNext ==
    \/ SetFilterCategory
    \/ SetFilterParticipant

SpecFilter == FilterInit /\ [][FilterNext]_vars

---------------------------------------------------------------------------
(* Trips API: routes/trips.js, under specification SpecTrips.  The store   *)
(* holds one document per trip id; it is reached through the MongoDB       *)
(* collection or, without a database, through memoryStore.  A handler that *)
(* awaits the collection more than once takes one step per awaited call;   *)
(* the createdAt/updatedAt stamps of a document are left out.              *)

MaxRequests == 2

TripIds == {"t1", "t2"}

\* const valid = ['flights','hotels','rides','attractions']
valid == {"flights", "hotels", "rides", "attractions"}

\* the fields the minimal validation of each POST /:id/<type> requires
RequiredFields(type) ==
    CASE type = "flights" -> {"flightNumber", "departureDateTime", "arrivalDateTime"}
      [] type = "hotels" -> {"name", "checkIn", "checkOut"}
      [] type = "rides" -> {"pickup", "dropoff"}
      [] type = "attractions" -> {"name", "scheduledDate"}

\* a request body carrying every required field; n tells the items apart
Item(type, n) == [f \in RequiredFields(type) |-> n]

\* a request body lacking one of the required fields
Incomplete(type, n) ==
    [f \in RequiredFields(type) \ {CHOOSE g \in RequiredFields(type) : TRUE} |-> n]

Bodies(type, n) == {Item(type, n), Incomplete(type, n)}

\* !flight.flightNumber || !flight.departureDateTime || ...
MissingRequired(type, body) ==
    \E f \in RequiredFields(type) : ~HasField(body, f)

RequiredMessage(type) ==
    CASE type = "flights" -> "flightNumber, departureDateTime and arrivalDateTime are required"
      [] type = "hotels" -> "name, checkIn and checkOut are required"
      [] type = "rides" -> "pickup and dropoff are required"
      [] type = "attractions" -> "name and scheduledDate are required"

\* the trip the store holds at first
StoredTrips ==
    "t1" :> [id |-> "t1", name |-> "Rome",
             flights |-> <<Item("flights", 10), Item("flights", 11)>>,
             hotels |-> <<Item("hotels", 10)>>,
             rides |-> <<>>,
             attractions |-> <<>>]

\* the bodies of POST / and PUT /:id
TripData == {[name |-> "Paris"]}

\* { ...doc, ...set }
Merge(doc, set) ==
    [f \in DOMAIN doc \cup DOMAIN set |-> IF f \in DOMAIN set THEN set[f] ELSE doc[f]]

\* collection.findOne({ id })
findOne(store, id) == IF id \in DOMAIN store THEN store[id] ELSE Null

\* collection.updateOne({ id }, { $set: set })
updateOne(store, id, set) ==
    IF id \in DOMAIN store THEN [store EXCEPT ![id] = Merge(@, set)] ELSE store

findOneAndUpdateUpserts(store, id, set) ==
    LET after == IF id \in DOMAIN store
                 THEN [store EXCEPT ![id] = Merge(@, set)]
                 ELSE (id :> Merge([id |-> id], set)) @@ store
    IN  [store |-> after, result |-> after[id]]

\* collection.findOneAndUpdate({ id }, { $set: set }, { returnDocument: 'after' })
findOneAndUpdate(store, id, set) ==
    [store |-> updateOne(store, id, set),
     result |-> findOne(updateOne(store, id, set), id)]

\* collection.deleteOne({ id })
deleteOne(store, id) ==
    [store |-> [k \in DOMAIN store \ {id} |-> store[k]],
     deletedCount |-> IF id \in DOMAIN store THEN 1 ELSE 0]

\* collection.insertOne(doc)
insertOne(store, doc) == (doc.id :> doc) @@ store

\* memoryStore.trips.findById(id)
memoryFindById(store, id) == IF id \in DOMAIN store THEN store[id] ELSE Null

\* memoryStore.trips.update(id, data): the updated trip, or nothing
memoryUpdate(store, id, data) ==
    IF id \in DOMAIN store
    THEN [store |-> [store EXCEPT ![id] = Merge(@, data)],
          result |-> Merge(store[id], data)]
    ELSE [store |-> store, result |-> Null]

\* memoryStore.trips.delete(id): whether a trip was deleted
memoryDelete(store, id) ==
    [store |-> [k \in DOMAIN store \ {id} |-> store[k]],
     deleted |-> id \in DOMAIN store]

\* the new document of POST /: the id is `trip-${Date.now()}`
NewTrip(id, tripData) ==
    Merge([id |-> id, flights |-> <<>>, hotels |-> <<>>, rides |-> <<>>,
           attractions |-> <<>>], tripData)

\* the :idx of a request path, character by character
IdxInputs ==
    { <<"0">>, <<"1">>, <<"2">>, <<"-", "1">>, <<"x">>, <<"1", "x">> }

DigitValue(c) ==
    CASE c = "0" -> 0 [] c = "1" -> 1 [] c = "2" -> 2 [] c = "3" -> 3
      [] c = "4" -> 4 [] c = "5" -> 5 [] c = "6" -> 6 [] c = "7" -> 7
      [] c = "8" -> 8 [] c = "9" -> 9 [] OTHER -> -1

RECURSIVE ReadDigits(_, _, _, _)
\* the decimal digits of chars from position i on
ReadDigits(chars, i, value, count) ==
    IF i > Len(chars) \/ DigitValue(chars[i]) < 0
    THEN [value |-> value, count |-> count]
    ELSE ReadDigits(chars, i + 1, value * 10 + DigitValue(chars[i]), count + 1)

RECURSIVE SkipSpaces(_, _)
SkipSpaces(chars, i) ==
    IF i <= Len(chars) /\ chars[i] = " " THEN SkipSpaces(chars, i + 1) ELSE i

\* parseInt(idx, 10): leading blanks, a sign, then the longest run of digits
parseInt(chars) ==
    LET start == SkipSpaces(chars, 1)
        negative == start <= Len(chars) /\ chars[start] = "-"
        signed == start <= Len(chars) /\ chars[start] \in {"-", "+"}
        read == ReadDigits(chars, IF signed THEN start + 1 ELSE start, 0, 0)
    IN  IF read.count = 0
        THEN NaN
        ELSE Num(IF negative THEN 0 - read.value ELSE read.value)

\* a request: the route and its parameters
Req(op, tripId, type, body) ==
    [op |-> op, tripId |-> tripId, type |-> type, body |-> body]

\* res.status(status).json(body); item is the item the request added or
\* removed, where it did
Response(rid, request, status, body, item) ==
    [rid |-> rid, request |-> request, status |-> status, body |-> body,
     item |-> item]

\* res.status(404).json({ error: 'Trip not found' })
NotFound(rid, request) ==
    Response(rid, request, 404, [error |-> "Trip not found"], Null)

\* getTripOr404: the trip, from the collection or from memoryStore
getTripOr404(id) ==
    IF database THEN findOne(trips, id) ELSE memoryFindById(trips, id)

Arrived == Len(answered) + Len(requests)

TripsInit ==
    /\ FrontIdle
    /\ trips = StoredTrips
    /\ database \in BOOLEAN
    /\ requests = <<>>
    /\ answered = <<>>
    /\ RegIdle
    /\ MwIdle
    /\ CheckoutIdle

\* router.get('/:id')
GetTrip ==
    \E id \in TripIds :
        LET request == Req("get", id, "", Null)
            trip == getTripOr404(id)
        IN  /\ Arrived < MaxRequests
            /\ answered' = Append(answered,
                    IF trip = Null
                    THEN NotFound(Arrived + 1, request)
                    ELSE Response(Arrived + 1, request, 200, trip, Null))
            /\ UNCHANGED <<trips, database, requests, otherThanTrips>>

\* router.post('/')
CreateTrip ==
    \E id \in TripIds \ DOMAIN trips :
        \E tripData \in TripData :
            LET request == Req("post", id, "", tripData)
                createdTrip == NewTrip(id, tripData)
            IN  /\ Arrived < MaxRequests
                /\ trips' = insertOne(trips, createdTrip)
                /\ answered' = Append(answered,
                        Response(Arrived + 1, request, 201, createdTrip, Null))
                /\ UNCHANGED <<database, requests, otherThanTrips>>

\* router.put('/:id')
UpdateTrip ==
    \E id \in TripIds :
        \E data \in TripData :
            LET request == Req("put", id, "", data)
                update == IF database
                          THEN findOneAndUpdate(trips, id, data)
                          ELSE memoryUpdate(trips, id, data)
            IN  /\ Arrived < MaxRequests
                /\ trips' = update.store
                /\ answered' = Append(answered,
                        IF update.result = Null
                        THEN NotFound(Arrived + 1, request)
                        ELSE Response(Arrived + 1, request, 200, update.result, Null))
                /\ UNCHANGED <<database, requests, otherThanTrips>>

\* router.delete('/:id')
DeleteTrip ==
    \E id \in TripIds :
        LET request == Req("delete", id, "", Null)
            deleted == IF database
                       THEN deleteOne(trips, id).deletedCount > 0
                       ELSE memoryDelete(trips, id).deleted
        IN  /\ Arrived < MaxRequests
            /\ trips' = IF database THEN deleteOne(trips, id).store
                                    ELSE memoryDelete(trips, id).store
            /\ answered' = Append(answered,
                    IF ~deleted
                    THEN NotFound(Arrived + 1, request)
                    ELSE Response(Arrived + 1, request, 200,
                                  [success |-> TRUE], Null))
            /\ UNCHANGED <<database, requests, otherThanTrips>>

\* the tail of a sub-resource handler: store the changed list and answer.
\* With a collection the handler awaits updateOne and then findOne; with
\* memoryStore it runs to its answer.
StoreList(rid, request, status, trip, item) ==
    IF database
    THEN /\ requests' = Append(requests,
                [rid |-> rid, request |-> request, status |-> status,
                 trip |-> trip, item |-> item, pc |-> "updateOne"])
         /\ UNCHANGED <<trips, answered>>
    ELSE LET update == memoryUpdate(trips, trip.id,
                            request.type :> trip[request.type])
         IN  /\ trips' = update.store
             /\ answered' = Append(answered,
                    Response(rid, request, status, update.result, item))
             /\ UNCHANGED requests

\* router.post('/:id/flights'), '/hotels', '/rides', '/attractions'
AddItem(type) ==
    \E id \in TripIds :
        \E body \in Bodies(type, Arrived + 1) :
            LET request == Req("add", id, type, body)
                trip == getTripOr404(id)
            IN  /\ Arrived < MaxRequests
                /\ IF trip = Null
                   THEN /\ answered' = Append(answered, NotFound(Arrived + 1, request))
                        /\ UNCHANGED <<trips, requests>>
                   ELSE IF MissingRequired(type, body)
                   THEN /\ answered' = Append(answered,
                               Response(Arrived + 1, request, 400,
                                        [error |-> RequiredMessage(type)], Null))
                        /\ UNCHANGED <<trips, requests>>
                   ELSE StoreList(Arrived + 1, request, 201,
                                  [trip EXCEPT ![type] = Append(@, body)], body)
                /\ UNCHANGED <<database, otherThanTrips>>

AddFlight ==
    /\ Arrived < MaxRequests
    /\ AddItem("flights")

AddHotel ==
    /\ Arrived < MaxRequests
    /\ AddItem("hotels")

AddRide ==
    /\ Arrived < MaxRequests
    /\ AddItem("rides")

AddAttraction ==
    /\ Arrived < MaxRequests
    /\ AddItem("attractions")


\* the :type of DELETE /:id/:type/:idx
TypeInputs == {"flights", "hotels", "expenses"}

\* router.delete('/:id/:type/:idx')
RemoveItem ==
    \E id \in TripIds :
        \E type \in TypeInputs :
            \E idx \in IdxInputs :
                LET request == Req("remove", id, type, idx)
                    trip == getTripOr404(id)
                    i == parseInt(idx)
                IN  /\ Arrived < MaxRequests
                    /\ IF trip = Null
                       THEN /\ answered' = Append(answered, NotFound(Arrived + 1, request))
                            /\ UNCHANGED <<trips, requests>>
                       ELSE IF type \notin valid
                       THEN /\ answered' = Append(answered,
                                   Response(Arrived + 1, request, 400,
                                            [error |-> "Invalid type"], Null))
                            /\ UNCHANGED <<trips, requests>>
                       ELSE IF i = NaN \/ i.value < 0 \/ i.value >= Len(trip[type])
                       THEN /\ answered' = Append(answered,
                                   Response(Arrived + 1, request, 400,
                                            [error |-> "Invalid index"], Null))
                            /\ UNCHANGED <<trips, requests>>
                       ELSE StoreList(Arrived + 1, request, 200,
                                [trip EXCEPT ![type] = RemoveAt(@, i.value + 1)],
                                trip[type][i.value + 1])
                    /\ UNCHANGED <<database, otherThanTrips>>

\* await collection.updateOne({ id: trip.id }, { $set: { [type]: trip[type] } })
CollectionUpdates ==
    \E k \in 1..Len(requests) :
        LET r == requests[k]
        IN  /\ r.pc = "updateOne"
            /\ trips' = updateOne(trips, r.trip.id,
                                  r.request.type :> r.trip[r.request.type])
            /\ requests' = [requests EXCEPT ![k].pc = "findOne"]
            /\ UNCHANGED <<database, answered, otherThanTrips>>

\* updated = await collection.findOne({ id: trip.id }); res.json(updated)
CollectionFinds ==
    \E k \in 1..Len(requests) :
        LET r == requests[k]
        IN  /\ r.pc = "findOne"
            /\ answered' = Append(answered,
                    Response(r.rid, r.request, r.status,
                             findOne(trips, r.trip.id), r.item))
            /\ requests' = RemoveAt(requests, k)
            /\ UNCHANGED <<trips, database, otherThanTrips>>

TripsNext ==
    \/ GetTrip
    \/ CreateTrip
    \/ UpdateTrip
    \/ DeleteTrip
    \/ AddFlight
    \/ AddHotel
    \/ AddRide
    \/ AddAttraction
    \/ RemoveItem
    \/ CollectionUpdates
    \/ CollectionFinds

SpecTrips == TripsInit /\ [][TripsNext]_vars

---------------------------------------------------------------------------
(* Auth routes: routes/auth.js, POST /register, under specification        *)
(* SpecRegister.  The handler awaits the users collection twice: findOne,  *)
(* and insertOne after the password was hashed.                            *)

MaxRegistrations == 3

Emails == {"a@x", "b@x"}

\* req.body: complete, or lacking the email, the password or the name
RegisterBodies ==
    {[email |-> e, password |-> "pw", name |-> "Ann"] : e \in Emails}
        \cup {[password |-> "pw", name |-> "Ann"],
              [email |-> "a@x", name |-> "Ann"],
              [email |-> "a@x", password |-> "pw"]}

\* collection.findOne({ email })
findOneByEmail(collection, email) ==
    IF \E k \in 1..Len(collection) : collection[k].email = email
    THEN collection[CHOOSE k \in 1..Len(collection) :
                        /\ collection[k].email = email
                        /\ \A j \in 1..(k - 1) : collection[j].email # email]
    ELSE Null

\* the newUser of a request: the password hashed by bcrypt
NewUser(rid, body) ==
    [id |-> rid, email |-> body.email, password |-> [hash |-> body.password],
     name |-> body.name, provider |-> "email"]

\* const { password: _, ...userWithoutPassword } = newUser
WithoutPassword(u) == [f \in DOMAIN u \ {"password"} |-> u[f]]

\* jwt.sign({ id, email, name }, JWT_SECRET, { expiresIn: '7d' })
SignedToken(u) == [jwt |-> u.id]

RegisterResponse(rid, body, status, json) ==
    [rid |-> rid, body |-> body, status |-> status, json |-> json]

RegistrationsArrived == Len(registered) + Len(registrations)

\* the users collection holds one user registered earlier; without a
\* database there is no collection
RegisterInit ==
    /\ FrontIdle
    /\ trips = <<>>
    /\ database \in BOOLEAN
    /\ requests = <<>>
    /\ answered = <<>>
    /\ MwIdle
    /\ CheckoutIdle
    /\ users = IF database
               THEN <<NewUser(0, [email |-> "a@x", password |-> "pw", name |-> "Ann"])>>
               ELSE <<>>
    /\ registrations = <<>>
    /\ registered = <<>>

\* router.post('/register') up to its first wait: the checks of the body and
\* of the collection, and the lookup of the email
Register ==
    \E body \in RegisterBodies :
        LET rid == RegistrationsArrived + 1
        IN  /\ RegistrationsArrived < MaxRegistrations
            /\ IF ~HasField(body, "email") \/ ~HasField(body, "password")
                    \/ ~HasField(body, "name")
               THEN /\ registered' = Append(registered,
                          RegisterResponse(rid, body, 400,
                              [error |-> "Email, password, and name are required"]))
                    /\ UNCHANGED registrations
               ELSE IF ~database
               THEN /\ registered' = Append(registered,
                          RegisterResponse(rid, body, 503,
                              [error |-> "Database not available"]))
                    /\ UNCHANGED registrations
               ELSE IF findOneByEmail(users, body.email) # Null
               THEN /\ registered' = Append(registered,
                          RegisterResponse(rid, body, 400,
                              [error |-> "Email already registered"]))
                    /\ UNCHANGED registrations
               ELSE /\ registrations' = Append(registrations,
                          [rid |-> rid, body |-> body])
                    /\ UNCHANGED registered
            /\ UNCHANGED <<users, frontVars, tripVars, mwVars, checkoutVars>>

\* await collection.insertOne(newUser), and the 201 answer
RegisterInserts ==
    \E k \in 1..Len(registrations) :
        LET r == registrations[k]
            newUser == NewUser(r.rid, r.body)
        IN  /\ users' = Append(users, newUser)
            /\ registered' = Append(registered,
                  RegisterResponse(r.rid, r.body, 201,
                      [user |-> WithoutPassword(newUser),
                       token |-> SignedToken(newUser)]))
            /\ registrations' = RemoveAt(registrations, k)
            /\ UNCHANGED <<frontVars, tripVars, mwVars, checkoutVars>>

RegisterNext ==
    \/ Register
    \/ RegisterInserts

SpecRegister == RegisterInit /\ [][RegisterNext]_vars

---------------------------------------------------------------------------
(* The auth middleware: verifyGoogleToken, under specification SpecVerify. *)
(* A token is one of the server's own JWTs (valid or expired), a Google ID *)
(* token, or neither.                                                      *)

MaxVerifications == 3

Tokens ==
    {[kind |-> "jwt", id |-> "A"],
     [kind |-> "expired", id |-> "A"],
     [kind |-> "google", sub |-> "G"],
     [kind |-> "junk"]}

\* req.headers.authorization: missing, or a scheme and what follows it
AuthHeaders ==
    {Null} \cup {[scheme |-> "Bearer ", rest |-> t] : t \in Tokens}
           \cup {[scheme |-> "Basic ", rest |-> [kind |-> "jwt", id |-> "A"]]}

\* !authHeader || !authHeader.startsWith('Bearer ')
NoBearer(authHeader) ==
    authHeader = Null \/ authHeader.scheme # "Bearer "

jwtVerifyIgnoresExpiry(tok) ==
    IF tok.kind \in {"jwt", "expired"}
    THEN [ok |-> TRUE, decoded |-> [id |-> tok.id]]
    ELSE [ok |-> FALSE]

\* jwt.verify(token, JWT_SECRET): the payload, or a throw
jwtVerify(tok) ==
    IF tok.kind = "jwt"
    THEN [ok |-> TRUE, decoded |-> [id |-> tok.id]]
    ELSE [ok |-> FALSE]

\* what the awaited client.verifyIdToken can give: the ticket of a Google
\* ID token, or a rejection (the token is none, or the keys are out of
\* reach)
verifyIdToken(tok) ==
    IF tok.kind = "google"
    THEN {[ok |-> TRUE, payload |-> [sub |-> tok.sub]], [ok |-> FALSE]}
    ELSE {[ok |-> FALSE]}

\* what the middleware did for a request: req.user and the calls of next()
\* and of res.status(401).json(...), in order
Verdict(rid, authHeader, reqUser, calls, ticket) ==
    [rid |-> rid, authHeader |-> authHeader, user |-> reqUser,
     calls |-> calls, ticket |-> ticket]

\* next()
NextCall == [call |-> "next"]

\* res.status(401).json({ error: message })
Unauthorized(message) == [call |-> "res", status |-> 401, error |-> message]

VerificationsArrived == Len(verified) + Len(verifying)

VerifyInit ==
    /\ FrontIdle
    /\ TripsIdle
    /\ RegIdle
    /\ CheckoutIdle
    /\ verifying = <<>>
    /\ verified = <<>>

\* verifyGoogleToken up to its wait for Google: the header check and
\* jwt.verify
verifyGoogleToken ==
    \E authHeader \in AuthHeaders :
        LET rid == VerificationsArrived + 1
        IN  /\ VerificationsArrived < MaxVerifications
            /\ IF NoBearer(authHeader)
               THEN /\ verified' = Append(verified,
                          Verdict(rid, authHeader, Null,
                                  <<Unauthorized("No token provided")>>, Null))
                    /\ UNCHANGED verifying
               ELSE IF jwtVerify(authHeader.rest).ok
               THEN /\ verified' = Append(verified,
                          Verdict(rid, authHeader,
                                  [id |-> jwtVerify(authHeader.rest).decoded.id],
                                  <<NextCall>>, Null))
                    /\ UNCHANGED verifying
               ELSE /\ verifying' = Append(verifying,
                          [rid |-> rid, authHeader |-> authHeader])
                    /\ UNCHANGED verified
            /\ UNCHANGED <<frontVars, tripVars, regVars, checkoutVars>>

\* client.verifyIdToken settles: req.user and next(), or 401
GoogleSettles ==
    \E k \in 1..Len(verifying) :
        \E ticket \in verifyIdToken(verifying[k].authHeader.rest) :
            LET r == verifying[k]
            IN  /\ verified' = Append(verified,
                      IF ticket.ok
                      THEN Verdict(r.rid, r.authHeader, [id |-> ticket.payload.sub],
                                   <<NextCall>>, ticket)
                      ELSE Verdict(r.rid, r.authHeader, Null,
                                   <<Unauthorized("Invalid token")>>, ticket))
                /\ verifying' = RemoveAt(verifying, k)
                /\ UNCHANGED <<frontVars, tripVars, regVars, checkoutVars>>

VerifyNext ==
    \/ verifyGoogleToken
    \/ GoogleSettles

SpecVerify == VerifyInit /\ [][VerifyNext]_vars

---------------------------------------------------------------------------
(* Smart checkout: router.post('/smart-checkout'), under specification     *)
(* SpecCheckout.  A time string is kept as its characters.                 *)

\* the drive durations the distance matrix reports, in seconds
DurationValues == {0, 1, 1800, 3599, 7200, 36000, 90000}

FlightHours == 0..23
FlightMinutes == {0, 15, 59}

DigitChar(d) ==
    CASE d = 0 -> "0" [] d = 1 -> "1" [] d = 2 -> "2" [] d = 3 -> "3"
      [] d = 4 -> "4" [] d = 5 -> "5" [] d = 6 -> "6" [] d = 7 -> "7"
      [] d = 8 -> "8" [] d = 9 -> "9"

\* n.toString().padStart(2, "0"), for 0 <= n < 100
PadStart2(n) == <<DigitChar(n \div 10), DigitChar(n % 10)>>

\* flightDepartureTime: an ISO date, "T" or a blank, and the time
DepartureTime(separator, hour, minute) ==
    <<"2", "0", "2", "5", "-", "0", "1", "-", "0", "1", separator>>
        \o PadStart2(hour) \o <<":">> \o PadStart2(minute) \o <<":", "0", "0">>

\* req.body: complete, or without the airport code
CheckoutBodies ==
    {[hotelAddress |-> "Hotel", airportCode |-> "FCO",
      flightDepartureTime |-> DepartureTime(separator, hour, minute)] :
        separator \in {"T", " "}, hour \in FlightHours, minute \in FlightMinutes}
      \cup {[hotelAddress |-> "Hotel",
             flightDepartureTime |-> DepartureTime("T", 10, 0)]}

\* s.slice(from, to), positions counted from 0
Slice(chars, from, to) ==
    SubSeq(chars, from + 1, IF to > Len(chars) THEN Len(chars) ELSE to)

\* the index from 0 of the first "T", -1 when there is none
IndexOfT(chars) ==
    IF \E k \in 1..Len(chars) : chars[k] = "T"
    THEN (CHOOSE k \in 1..Len(chars) :
            chars[k] = "T" /\ \A j \in 1..(k - 1) : chars[j] # "T") - 1
    ELSE -1

\* flightDepartureTime.includes("T") ? split("T")[1].slice(0, 5)
\*                                   : flightDepartureTime.slice(11, 16)
\* (a departure time holds at most one "T")
FlightTime(chars) ==
    IF IndexOfT(chars) >= 0
    THEN Slice(SubSeq(chars, IndexOfT(chars) + 2, Len(chars)), 0, 5)
    ELSE Slice(chars, 11, 16)

\* flightTime.split(":").map(Number), on "HH:MM"
HourAndMinute(flightTime) ==
    [hour |-> ReadDigits(flightTime, 1, 0, 0).value,
     minute |-> ReadDigits(flightTime, 4, 0, 0).value]

\* what the awaited googleApi.getDistanceMatrix can give: an element with
\* status OK and a duration, an element with another status, or a throw
DistanceResults ==
    {[kind |-> "OK", duration |-> d] : d \in DurationValues}
        \cup {[kind |-> "ZERO_RESULTS"], [kind |-> "throw"]}

MinutesFloor(seconds) == seconds \div 60

\* Math.ceil(element.duration.value / 60)
MinutesCeil(seconds) == (seconds + 59) \div 60

RECURSIVE BorrowHours(_, _)
\* while (checkoutMinute < 0) { checkoutMinute += 60; checkoutHour -= 1 }
BorrowHours(hour, minute) ==
    IF minute < 0 THEN BorrowHours(hour - 1, minute + 60)
    ELSE [hour |-> hour, minute |-> minute]

RECURSIVE WrapDays(_)
\* while (checkoutHour < 0) { checkoutHour += 24 }
WrapDays(hour) == IF hour < 0 THEN WrapDays(hour + 24) ELSE hour

\* the checkout computation: flight time - 3 hours - drive duration, not
\* before 6:00 and not after 12:00
CheckoutTime(flightHour, flightMinute, driveDurationMinutes) ==
    LET totalMinutesBeforeFlight == 3 * 60 + driveDurationMinutes
        borrowed == BorrowHours(flightHour, flightMinute - totalMinutesBeforeFlight)
        wrapped == [hour |-> WrapDays(borrowed.hour), minute |-> borrowed.minute]
        notEarly == IF wrapped.hour < 6 THEN [hour |-> 6, minute |-> 0] ELSE wrapped
        notLate == IF notEarly.hour > 12 \/ (notEarly.hour = 12 /\ notEarly.minute > 0)
                   THEN [hour |-> 12, minute |-> 0]
                   ELSE notEarly
    IN  PadStart2(notLate.hour) \o <<":">> \o PadStart2(notLate.minute)

\* the response; lookups counts the calls of getDistanceMatrix
CheckoutAnswer(status, json, lookups) ==
    [status |-> status, json |-> json, lookups |-> lookups]

StandardCheckout == <<"1", "2", ":", "0", "0">>

\* router.post('/smart-checkout') for a body and what the distance lookup,
\* if the handler makes it, gives
smartCheckout(body, distanceData) ==
    IF ~HasField(body, "hotelAddress") \/ ~HasField(body, "airportCode")
          \/ ~HasField(body, "flightDepartureTime")
    THEN CheckoutAnswer(400,
            [error |-> "hotelAddress, airportCode, and flightDepartureTime are required"], 0)
    ELSE LET flight == HourAndMinute(FlightTime(body.flightDepartureTime))
         IN  IF flight.hour >= 21
             THEN CheckoutAnswer(200,
                     [checkoutTime |-> StandardCheckout, driveDurationMinutes |-> 0,
                      shouldCreateRide |-> FALSE, lateNightFlight |-> TRUE], 0)
             ELSE IF distanceData.kind = "throw"
             THEN CheckoutAnswer(500,
                     [error |-> "Failed to calculate smart checkout time"], 1)
             ELSE IF distanceData.kind # "OK"
             THEN CheckoutAnswer(200,
                     [checkoutTime |-> StandardCheckout, driveDurationMinutes |-> 0,
                      shouldCreateRide |-> FALSE, lateNightFlight |-> FALSE], 1)
             ELSE CheckoutAnswer(200,
                     [checkoutTime |-> CheckoutTime(flight.hour, flight.minute,
                                          MinutesCeil(distanceData.duration)),
                      driveDurationMinutes |-> MinutesCeil(distanceData.duration),
                      shouldCreateRide |-> TRUE, lateNightFlight |-> FALSE], 1)

CheckoutInit ==
    /\ FrontIdle
    /\ TripsIdle
    /\ RegIdle
    /\ MwIdle
    /\ checkoutRequest \in CheckoutBodies
    /\ checkoutResponse = Null

\* the handler runs to its response
SmartCheckoutAnswers ==
    \E distanceData \in DistanceResults :
        /\ checkoutResponse = Null
        /\ checkoutResponse' = smartCheckout(checkoutRequest, distanceData)
        /\ UNCHANGED <<checkoutRequest, frontVars, tripVars, regVars, mwVars>>

CheckoutNext == SmartCheckoutAnswers

SpecCheckout == CheckoutInit /\ [][CheckoutNext]_vars

---------------------------------------------------------------------------
(* The session: AuthProvider, under specification SpecSession.  authCalls  *)
(* is the record of the calls of login, loginWithEmail, register and       *)
(* logout in the order they were made, each with what became of it; the    *)
(* calls still "pending" are the requests in flight.                       *)

MaxCalls == 3

\* err.message, kept apart from no error
Message(text) == [message |-> text]

\* localStorage.setItem(key, value)
setItem(storage, key, value) ==
    [k \in DOMAIN storage \cup {key} |-> IF k = key THEN value ELSE storage[k]]

removeItemKeeps(storage, key) == storage

\* localStorage.removeItem(key)
removeItem(storage, key) ==
    [k \in DOMAIN storage \ {key} |-> storage[k]]

\* localStorage.getItem(key)
getItem(storage, key) == IF HasField(storage, key) THEN storage[key] ELSE Null

\* the effect on mount: the session kept in localStorage, when both entries
\* are there
StoredSession(storage) ==
    LET storedToken == getItem(storage, "authToken")
        storedUser == getItem(storage, "user")
    IN  IF storedToken # Null /\ storedUser # Null
        THEN [token |-> storedToken, user |-> JSONparse(storedUser)]
        ELSE [token |-> Null, user |-> Null]

\* what the Google button hands to login: a credential, or none
CredentialResponses ==
    {[credential |-> TokenOf(u)] : u \in AuthUsers \ {Null}} \cup {EmptyMap}

\* the payload of a credential: the user it was issued to
DecodedPayload(credential) == [sub |-> credential.jwt]

\* what the awaited fetch of /api/auth/login or /api/auth/register gives: an
\* ok response with user and token, a response that is not ok with or
\* without an error text, or a rejection
AuthResponses ==
    {[kind |-> "response", ok |-> TRUE, data |-> [user |-> u, token |-> TokenOf(u)]] :
        u \in AuthUsers \ {Null}}
      \cup {[kind |-> "response", ok |-> FALSE, data |-> [error |-> "Invalid credentials"]],
            [kind |-> "response", ok |-> FALSE, data |-> EmptyMap],
            [kind |-> "rejected", ok |-> FALSE, data |-> EmptyMap]}

\* the error the try block throws for a response, Null when it throws none
Thrown(op, response) ==
    IF response.kind = "rejected" THEN Message("Failed to fetch")
    ELSE IF response.ok THEN Null
    ELSE IF HasField(response.data, "error") THEN Message(response.data.error)
    ELSE IF op = "loginWithEmail" THEN Message("Login failed")
    ELSE Message("Registration failed")

AuthCall(op, result) == [op |-> op, result |-> result]

\* isAuthenticated: !!user
isAuthenticated == user # Null

SessionInit ==
    /\ balances = [i \in 1..Len(Participants) |-> InputBalance(Participants[i], 0, 0)]
    /\ expenses = <<>>
    /\ convertedAmounts = <<>>
    /\ eurBalances = EurBalances(balances, expenses, convertedAmounts)
    /\ FormIdle
    /\ ServiceIdle
    /\ ViewIdle
    /\ permission = "edit"
    /\ isOwner = TRUE
    /\ FilterIdle
    /\ BackIdle
    /\ localStorage \in {Persisted(u) : u \in AuthUsers}
    /\ user = StoredSession(localStorage).user
    /\ token = StoredSession(localStorage).token
    /\ error = Null
    /\ authCalls = <<>>

\* login(credentialResponse)
login ==
    \E credentialResponse \in CredentialResponses :
        /\ Len(authCalls) < MaxCalls
        /\ IF HasField(credentialResponse, "credential")
           THEN LET userData == [id |-> DecodedPayload(credentialResponse.credential).sub]
                IN  /\ user' = userData
                    /\ token' = credentialResponse.credential
                    /\ localStorage' =
                         setItem(setItem(localStorage, "authToken",
                                         credentialResponse.credential),
                                 "user", JSONstringify(userData))
                    /\ error' = Null
                    /\ authCalls' = Append(authCalls, AuthCall("login", "ok"))
           ELSE /\ authCalls' = Append(authCalls, AuthCall("login", "none"))
                /\ UNCHANGED <<user, token, localStorage, error>>
        /\ UNCHANGED <<aggVars, formVars, convVars, viewVars, permission, isOwner,
                       filterVars, backVars>>

\* loginWithEmail or register up to its await: setError(null), fetch
StartCall(op) ==
    /\ Len(authCalls) < MaxCalls
    /\ error' = Null
    /\ authCalls' = Append(authCalls, AuthCall(op, "pending"))
    /\ UNCHANGED <<user, token, localStorage>>
    /\ UNCHANGED <<aggVars, formVars, convVars, viewVars, permission, isOwner,
                   filterVars, backVars>>

loginWithEmail ==
    /\ Len(authCalls) < MaxCalls
    /\ StartCall("loginWithEmail")

register ==
    /\ Len(authCalls) < MaxCalls
    /\ StartCall("register")

\* a fetch settles and loginWithEmail or register runs on from its await
FetchSettles ==
    \E i \in 1..Len(authCalls), response \in AuthResponses :
        /\ authCalls[i].result = "pending"
        /\ IF Thrown(authCalls[i].op, response) = Null
           THEN /\ user' = response.data.user
                /\ token' = response.data.token
                /\ localStorage' =
                     setItem(setItem(localStorage, "authToken", response.data.token),
                             "user", JSONstringify(response.data.user))
                /\ authCalls' = [authCalls EXCEPT ![i].result = "ok"]
                /\ UNCHANGED error
           ELSE /\ error' = Thrown(authCalls[i].op, response)
                /\ authCalls' = [authCalls EXCEPT ![i].result = "failed"]
                /\ UNCHANGED <<user, token, localStorage>>
        /\ UNCHANGED <<aggVars, formVars, convVars, viewVars, permission, isOwner,
                       filterVars, backVars>>

logout ==
    /\ Len(authCalls) < MaxCalls
    /\ user' = Null
    /\ token' = Null
    /\ error' = Null
    /\ localStorage' = removeItem(removeItem(localStorage, "authToken"), "user")
    /\ authCalls' = Append(authCalls, AuthCall("logout", "ok"))
    /\ UNCHANGED <<aggVars, formVars, convVars, viewVars, permission, isOwner,
                   filterVars, backVars>>

SessionNext ==
    \/ login
    \/ loginWithEmail
    \/ register
    \/ FetchSettles
    \/ logout

SpecSession == SessionInit /\ [][SessionNext]_vars

---------------------------------------------------------------------------
(* Vocabulary of the properties below.                                     *)

Users == {Participants[i] : i \in 1..Len(Participants)} \cup {Outsider}

\* the aggregator's initial set: the participants of the `balances` prop
InSet == {balances[i].userId : i \in 1..Len(balances)}

ExpenseSet == {expenses[i] : i \in 1..Len(expenses)}

\* the aggregation ran (the memo did not return its input early)
Aggregated == DOMAIN convertedAmounts # {}

PivotOf(e) == ConvertedAmount(e, convertedAmounts)

ResultOf(u) == LET i == CHOOSE i \in 1..Len(eurBalances) : eurBalances[i].userId = u
               IN  eurBalances[i]

SumPaid == RSum([i \in 1..Len(eurBalances) |-> eurBalances[i].totalPaid])
SumOwed == RSum([i \in 1..Len(eurBalances) |-> eurBalances[i].totalOwed])

PayerAmounts(e) == [i \in 1..Len(e.paidBy.payers) |-> e.paidBy.payers[i].amount]
PayerIds(e) ==
    IF e.paidBy.kind = "string" THEN {e.paidBy.userId}
    ELSE {e.paidBy.payers[i].userId : i \in 1..Len(e.paidBy.payers)}
SplitIds(e) == {e.splits[i].userId : i \in 1..Len(e.splits)}
SplitField(e, f) == [i \in 1..Len(e.splits) |-> FieldOrZero(e.splits[i], f)]

\* the payer check of the add/edit validation: every amount > 0, the sum
\* within the tolerance of the expense amount
PayersValidated(e) ==
    e.paidBy.kind = "array" =>
        /\ Len(e.paidBy.payers) > 0
        /\ \A i \in 1..Len(e.paidBy.payers) : e.paidBy.payers[i].amount > 0
        /\ Abs(ISum(PayerAmounts(e)) - e.amount) <= Tolerance

\* the expense's amount is distributed exactly, among participants of the set
ExactlyDistributed(e) ==
    /\ PayerIds(e) \subseteq InSet
    /\ SplitIds(e) \subseteq InSet
    /\ e.paidBy.kind = "array" => ISum(PayerAmounts(e)) = e.amount
    /\ e.splitMethod = "custom-amount" => ISum(SplitField(e, "amount")) = e.amount
    /\ e.splitMethod = "custom-percentage"
           => ISum(SplitField(e, "percentage")) = Hundred

\* the pivot amounts of the expenses nobody is debited for
UnsplitPivot ==
    RSum([i \in 1..Len(expenses) |->
            IF expenses[i].splits = <<>> THEN R(PivotOf(expenses[i])) ELSE R(0)])

\* what participant u paid of expense e, in the pivot currency, as the
\* specification states it
PaidShare(e, u) ==
    IF e.paidBy.kind = "string"
    THEN IF e.paidBy.userId = u THEN R(PivotOf(e)) ELSE R(0)
    ELSE RSum([i \in 1..Len(e.paidBy.payers) |->
                 IF e.paidBy.payers[i].userId = u
                 THEN <<e.paidBy.payers[i].amount * PivotOf(e), e.amount>>
                 ELSE R(0)])

\* the credits of one expense to the participants of the set
CreditsOf(e) ==
    LET pb == CreditPayers(InitParticipantBalances(balances), e, PivotOf(e))
        ids == InsertionOrder(balances, pb)
    IN  RSum([i \in 1..Len(ids) |-> pb[ids[i]].totalPaid])

\* x = y for rationals that need not be in lowest terms
REq(x, y) == x[1] * y[2] = y[1] * x[2]
RLeq(x, y) == x[1] * y[2] <= y[1] * x[2]

---------------------------------------------------------------------------
(* C1  Conservation.                                                       *)

\* C1 as stated: the totalPaid of eurBalances sum to the sum of its
\* totalOwed (stated here for the trips whose expenses all have a split
\* entry, which is all the refutation needs).
C1_AsStated ==
    (\A e \in ExpenseSet : e.splits # <<>>) => REq(SumPaid, SumOwed)

\* C1 amended: when the aggregation ran and every expense is distributed
\* exactly among participants of the set, sum(totalPaid) equals
\* sum(totalOwed) plus the pivot amounts of the expenses whose split list is
\* empty; when it did not run (empty map) the result is the input.
C1_Conservation ==
    /\ Aggregated /\ (\A e \in ExpenseSet : ExactlyDistributed(e))
         => REq(SumPaid, RAdd(SumOwed, UnsplitPivot))
    /\ ~Aggregated => eurBalances = balances

C1_Witness ==
    /\ Aggregated
    /\ Len(expenses) = 2
    /\ \A e \in ExpenseSet : ExactlyDistributed(e) /\ e.splits # <<>>
    /\ \E e \in ExpenseSet : e.paidBy.kind = "array" /\ PivotOf(e) = Amt(92)
    /\ \E e \in ExpenseSet : e.splitMethod = "custom-percentage"
    /\ SumPaid # R(0)

---------------------------------------------------------------------------
(* C6  An equal split distributes the whole amount.                        *)

\* C6: for every expense split equally among N >= 1 entries, the
\* calculateSplitAmount of the N participants sum to the expense amount.
C6_EqualSplitSum ==
    \A e \in ExpenseSet :
        e.splitMethod = "equal" /\ Len(e.splits) >= 1
            => RSum([i \in 1..Len(e.splits) |->
                       calculateSplitAmount(e, e.splits[i].userId)])
                 = R(e.amount)

C6_Witness ==
    /\ \E e \in ExpenseSet : e.splitMethod = "equal" /\ Len(e.splits) = 3
    /\ \E e \in ExpenseSet : e.splitMethod = "equal" /\ Len(e.splits) = 1

---------------------------------------------------------------------------
(* C7  calculateSplitAmount, case by case.                                 *)

\* C7: 0 for a participant absent from splits; otherwise amount / number of
\* split entries for 'equal', the recorded amount (0 if unset) for
\* 'custom-amount', amount x percentage / 100 (0 if unset) for
\* 'custom-percentage'.
C7_SplitAmount ==
    \A e \in ExpenseSet : \A u \in Users :
        LET r == calculateSplitAmount(e, u)
            i == FindSplit(e, u)
        IN  /\ u \notin SplitIds(e) => r = R(0)
            /\ u \in SplitIds(e) /\ e.splitMethod = "equal"
                 => r[1] * Len(e.splits) = e.amount * r[2]
            /\ u \in SplitIds(e) /\ e.splitMethod = "custom-amount"
                 => r = R(IF HasField(e.splits[i], "amount")
                          THEN e.splits[i].amount ELSE 0)
            /\ u \in SplitIds(e) /\ e.splitMethod = "custom-percentage"
                 => r[1] * Hundred =
                      e.amount * (IF HasField(e.splits[i], "percentage")
                                  THEN e.splits[i].percentage ELSE 0) * r[2]

C7_Witness ==
    /\ \E e \in ExpenseSet :
          /\ e.splitMethod = "custom-amount"
          /\ \E i \in 1..Len(e.splits) : ~HasField(e.splits[i], "amount")
    /\ \E e \in ExpenseSet :
          /\ e.splitMethod = "custom-percentage" /\ e.amount # Hundred
          /\ calculateSplitAmount(e, "A") # R(0)

---------------------------------------------------------------------------
(* C8  The aggregator's debit agrees with the Split Calculator.            *)

\* (calculateSplitAmount(e, u) / e.amount) x pivot amount
CalculatorShare(e, u) ==
    RMul(RDiv(calculateSplitAmount(e, u), R(e.amount)), R(PivotOf(e)))

\* C8: for every expense and every split entry of a participant of the set,
\* the amount the aggregator adds to totalOwed is
\* (calculateSplitAmount / amount) x pivot amount, which is the amount of the
\* entry's chip; and a participant's totalOwed is the sum of these amounts.
C8_DebitAgrees ==
    /\ \A e \in ExpenseSet : \A i \in 1..Len(e.splits) :
          e.splits[i].userId \in InSet
              => /\ OwedAmount(e, e.splits[i], PivotOf(e))
                      = CalculatorShare(e, e.splits[i].userId)
                 /\ SplitChip(e, e.splits[i], convertedAmounts)
                      = CalculatorShare(e, e.splits[i].userId)
    /\ Aggregated =>
          \A u \in InSet :
              ResultOf(u).totalOwed =
                  RSum([i \in 1..Len(expenses) |->
                          IF u \in SplitIds(expenses[i])
                          THEN CalculatorShare(expenses[i], u) ELSE R(0)])

C8_Witness ==
    /\ Aggregated
    /\ \E e \in ExpenseSet :
          e.splitMethod = "equal" /\ Len(e.splits) = 3 /\ PivotOf(e) = Amt(92)
    /\ \E e \in ExpenseSet :
          e.splitMethod = "custom-percentage" /\ PivotOf(e) = e.amount
    /\ ResultOf("A").totalOwed # R(0)

---------------------------------------------------------------------------
(* C9  Payer crediting.                                                    *)

\* C9 as stated, its last part: the credits of a validated expense whose
\* payers are all in the set sum to its pivot amount.
C9_AsStated ==
    \A e \in ExpenseSet :
        PayersValidated(e) /\ PayerIds(e) \subseteq InSet
            => REq(CreditsOf(e), R(PivotOf(e)))

\* C9 amended: a single payer of the set is credited the full pivot amount,
\* each listed payer of the set (payerAmount / amount) x pivot amount, and a
\* payer outside the set nothing; so the credits of a validated expense whose
\* payers are all in the set sum to pivot x (sum of payer amounts) / amount,
\* which is within 0.01 x pivot / amount of the pivot amount, and is the
\* pivot amount when the payer amounts sum to the expense amount exactly.
C9_PayerCredit ==
    /\ Aggregated =>
          \A u \in InSet :
              REq(ResultOf(u).totalPaid,
                  RSum([i \in 1..Len(expenses) |-> PaidShare(expenses[i], u)]))
    /\ \A e \in ExpenseSet :
          PayersValidated(e) /\ PayerIds(e) \subseteq InSet
              => LET c == CreditsOf(e)
                     paid == IF e.paidBy.kind = "string" THEN e.amount
                             ELSE ISum(PayerAmounts(e))
                     off == RSub(c, R(PivotOf(e)))
                 IN  /\ c = Norm(PivotOf(e) * paid, e.amount)
                     /\ RLeq(<<Abs(off[1]), off[2]>>,
                             Norm(Tolerance * PivotOf(e), e.amount))
                     /\ paid = e.amount => c = R(PivotOf(e))

C9_Witness ==
    /\ Aggregated
    /\ \E e \in ExpenseSet :
          /\ e.paidBy.kind = "array" /\ PayersValidated(e)
          /\ PayerIds(e) \subseteq InSet
          /\ ISum(PayerAmounts(e)) # e.amount
          /\ PivotOf(e) = Amt(92)
    /\ \E e \in ExpenseSet : e.paidBy.kind = "string" /\ e.paidBy.userId \in InSet
    /\ ResultOf("B").totalPaid # R(0)

---------------------------------------------------------------------------
(* C10  One balance per participant; outsiders are skipped.                *)

\* the `balances` prop with the outsider added as a participant
WithOutsider == Append(balances, InputBalance(Outsider, 0, 0))

---------------------------------------------------------------------------
(* Vocabulary of the dialog's properties.  In the state handleSubmit       *)
(* leaves, formData is the form it read and outcome is what it did.        *)

Called == outcome.kind \in {"add", "update"}
Alerted == outcome.kind = "alert"
Submitted == Called \/ Alerted

AmountOf(form) == parseFloat(form.amount)
AmountValid(form) == ~AmountOf(form).nan /\ AmountOf(form).value > 0

PositivePayers(form) ==
    {k \in DOMAIN form.payerAmounts : form.payerAmounts[k] > 0}

RECURSIVE SetSum(_, _)
SetSum(f, keys) ==
    IF keys = {} THEN 0
    ELSE LET k == CHOOSE x \in keys : TRUE
         IN  f[k] + SetSum(f, keys \ {k})

PaidTotal(form) == SetSum(form.payerAmounts, PositivePayers(form))

SelectedTotal(form, field) ==
    ISum([i \in 1..Len(form.selectedParticipants) |->
            MapGetOrZero(form[field], form.selectedParticipants[i])])

PayerCheck(form, slack) ==
    IF form.multiplePayers
    THEN /\ PositivePayers(form) # {}
         /\ Abs(PaidTotal(form) - AmountOf(form).value) <= slack
    ELSE form.paidBy # ""

SplitCheck(form, slack) ==
    /\ form.splitMethod = "custom-amount" =>
          Abs(SelectedTotal(form, "customAmounts") - AmountOf(form).value) <= slack
    /\ form.splitMethod = "custom-percentage" =>
          Abs(SelectedTotal(form, "customPercentages") - Hundred) <= slack

\* every check passes, a sum counting as equal when it is off by at most slack
ChecksPass(form, slack) ==
    /\ form.title # ""
    /\ AmountValid(form)
    /\ PayerCheck(form, slack)
    /\ SplitCheck(form, slack)

FieldTotal(list, field) == ISum(SeqMap(LAMBDA x : FieldOrZero(x, field), list))

---------------------------------------------------------------------------
(* C2  An equal split over nobody is never accepted.                       *)

\* C2, as stated: handleSubmit never calls onAddExpense / onUpdateExpense
\* with an expense whose splitMethod is 'equal' and whose splits are empty.
C2_AsStated ==
    Called => ~(/\ outcome.expense.splitMethod = "equal"
                /\ outcome.expense.splits = <<>>)

---------------------------------------------------------------------------
(* C3  handleSubmit calls the persistence only for a form that passes.     *)

\* C3: a step of handleSubmit that calls onAddExpense / onUpdateExpense read
\* a form with a title, an amount that parses to a number > 0, a passing
\* payer check and a passing split-sum check; a step on a form that fails a
\* check calls neither and alerts; either way the step leaves the dialog
\* open and editingExpense and the form as they were.  The form is reset and
\* the dialog closed by the step in which the awaited call resolves.
C3_SubmitChecked ==
    [][ /\ Called' /\ pending' # pending =>
              /\ pending' = pending + 1
              /\ ChecksPass(formData, Tolerance)
              /\ outcome'.kind = (IF editingExpense = Null THEN "add" ELSE "update")
        /\ Submitted' /\ ~ChecksPass(formData, Tolerance) =>
              /\ Alerted'
              /\ pending' = pending
        /\ Alerted' => pending' = pending
        /\ Submitted' =>
              /\ addDialogOpen /\ addDialogOpen'
              /\ editingExpense' = editingExpense
              /\ formData' = formData
        /\ outcome'.kind = "resolved" =>
              /\ pending' = pending - 1
              /\ ~addDialogOpen'
              /\ editingExpense' = Null
              /\ formData' = InitialFormData
      ]_vars

\* an edited expense whose title was cleared is refused, and the dialog
\* still shows it
C3_Witness ==
    /\ Alerted
    /\ editingExpense # Null
    /\ formData.title = ""
    /\ addDialogOpen
    /\ pending = 0

---------------------------------------------------------------------------
(* C4  Multiple payers.                                                    *)

\* C4: with multiple payers, after handleSubmit ran: if it called the
\* persistence, every payer recorded in the expense has an amount > 0 and
\* the recorded amounts sum to the expense amount within 0.01; if no payer
\* amount of the form is > 0, or the positive ones sum to more than 0.01 off
\* the amount, it alerted and called nothing.
C4_MultiplePayers ==
    Submitted /\ formData.multiplePayers =>
        /\ Called =>
              LET e == outcome.expense
              IN  /\ e.paidBy.kind = "array"
                  /\ e.paidBy.payers # <<>>
                  /\ \A i \in 1..Len(e.paidBy.payers) : e.paidBy.payers[i].amount > 0
                  /\ Abs(FieldTotal(e.paidBy.payers, "amount") - e.amount) <= Tolerance
        /\ AmountValid(formData) /\ PositivePayers(formData) = {} => Alerted
        /\ /\ AmountValid(formData)
           /\ Abs(PaidTotal(formData) - AmountOf(formData).value) > Tolerance
           => Alerted

\* payers {A: 60, B: 40} on an expense of 100 went through
C4_Witness ==
    /\ Called
    /\ formData.multiplePayers
    /\ outcome.expense.amount = Amt(100)
    /\ outcome.expense.paidBy =
          ArrayPayer(<<Payer("A", Amt(60)), Payer("B", Amt(40))>>)

---------------------------------------------------------------------------
(* C5  Custom splits of an accepted expense add up.                        *)

\* C5: every expense handleSubmit passes on has, under 'custom-amount',
\* split amounts that sum to its amount within 0.01 and, under
\* 'custom-percentage', split percentages that sum to 100 within 0.01; a
\* form whose custom sum is further off is refused.
C5_CustomSplits ==
    /\ Called =>
          LET e == outcome.expense
          IN  /\ e.splitMethod = "custom-amount" =>
                    /\ \A i \in 1..Len(e.splits) : HasField(e.splits[i], "amount")
                    /\ Abs(FieldTotal(e.splits, "amount") - e.amount) <= Tolerance
              /\ e.splitMethod = "custom-percentage" =>
                    /\ \A i \in 1..Len(e.splits) : HasField(e.splits[i], "percentage")
                    /\ Abs(FieldTotal(e.splits, "percentage") - Hundred) <= Tolerance
    /\ Submitted /\ AmountValid(formData) /\ ~SplitCheck(formData, Tolerance) => Alerted

\* percentages {A: 60, B: 40} went through
C5_Witness ==
    /\ Called
    /\ outcome.expense.splitMethod = "custom-percentage"
    /\ \E i, j \in 1..Len(outcome.expense.splits) :
          /\ outcome.expense.splits[i] = SplitPct("A", Amt(60))
          /\ outcome.expense.splits[j] = SplitPct("B", Amt(40))

---------------------------------------------------------------------------
(* C11  The aggregator is a function of its inputs, whatever their order.  *)

\* the orderings of a list
Orderings(list) ==
    LET n == Len(list)
        bijections == {p \in [1..n -> 1..n] : \A i, j \in 1..n : p[i] = p[j] => i = j}
    IN  {[i \in 1..n |-> list[p[i]]] : p \in bijections}

\* C11: the memo value is the aggregator's result on the current balances,
\* expense list and converted amounts (computing it again gives the same
\* list), and the aggregator gives every participant the same totalPaid,
\* totalOwed and balance on every permutation of the expense list.
C11_PureFunction ==
    /\ eurBalances = EurBalances(balances, expenses, convertedAmounts)
    /\ \A list \in Orderings(expenses) :
          LET result == EurBalances(balances, list, convertedAmounts)
          IN  /\ Len(result) = Len(eurBalances)
              /\ \A i \in 1..Len(result) :
                    /\ result[i].userId = eurBalances[i].userId
                    /\ REq(result[i].totalPaid, eurBalances[i].totalPaid)
                    /\ REq(result[i].totalOwed, eurBalances[i].totalOwed)
                    /\ REq(result[i].balance, eurBalances[i].balance)

\* two expenses with payer lists and different pivot amounts, in an order
\* that has another
C11_Witness ==
    /\ Aggregated
    /\ Len(expenses) = 2
    /\ expenses[1].paidBy.kind = "array" /\ expenses[2].paidBy.kind = "array"
    /\ PivotOf(expenses[1]) # PivotOf(expenses[2])
    /\ Cardinality(Orderings(expenses)) = 2
    /\ ResultOf("A").totalPaid # R(0)
    /\ ResultOf("A").totalOwed # R(0)

---------------------------------------------------------------------------
(* Vocabulary of the rate provider's properties.                           *)

PairOf(r) == CacheKey(r.fromCurrency, r.toCurrency)

\* the entry of a pair is there and less than an hour old
Fresh(key) ==
    /\ key \in DOMAIN conversionCache
    /\ now - conversionCache[key].timestamp < CACHE_DURATION

\* the rates the source can send for a pair, as numbers
SourceRates(key) == {parseFloatRate(str) : str \in RateStrings(key)}
UsableRates(key) == {rate \in SourceRates(key) : ~IsNaN(rate)}

\* the value the static table gives: amount x table[from_to], else
\* amount / table[to_from], else the amount
TableValue(amount, fromCurrency, toCurrency) ==
    IF <<fromCurrency, toCurrency>> \in DOMAIN fallbackRates
    THEN RMul(amount, fallbackRates[<<fromCurrency, toCurrency>>])
    ELSE IF <<toCurrency, fromCurrency>> \in DOMAIN fallbackRates
    THEN RDiv(amount, fallbackRates[<<toCurrency, fromCurrency>>])
    ELSE amount

Returns == {returned[i] : i \in 1..Len(returned)}
ReturnsNext == {returned'[i] : i \in 1..Len(returned')}

\* a single call was made in this step and returned without awaiting
ReturnedAtOnce(r) ==
    /\ returned' = <<r>>
    /\ batch' = batch
    /\ Len(inflight') = Len(inflight)
    /\ r.via \in {"same", "cache"}

\* the calls that started to await the rate source in this step
Queried ==
    IF Len(inflight') > Len(inflight)
    THEN {inflight'[i] : i \in (Len(inflight) + 1)..Len(inflight')}
    ELSE {}

---------------------------------------------------------------------------
(* C12  Currency identity.                                                 *)

\* a cache that holds an entry even for the pair (X, X)
WithIdentityEntry(cache, X) ==
    (CacheKey(X, X) :> [rate |-> <<2, 1>>, timestamp |-> now]) @@ cache

\* C12: convertCurrency(amount, X, X) returns the amount unchanged whatever
\* the cache holds (even an entry for X_X) and whatever the time; the step
\* that makes the call sends nothing to the rate source and leaves the cache
\* as it was.
C12_Identity ==
    /\ [](\A X \in Currencies, amount \in ClientAmounts :
            \A cache \in {conversionCache, WithIdentityEntry(conversionCache, X)} :
                ConvertStart(R(amount), X, X, cache, now)
                    = [kind |-> "return",
                       return |-> Return(R(amount), X, X, R(amount), "same")])
    /\ [](\A r \in Returns :
            r.fromCurrency = r.toCurrency => r.value = r.amount /\ r.via = "same")
    /\ [][\A r \in ReturnsNext :
            r.fromCurrency = r.toCurrency /\ ReturnedAtOnce(r) =>
                /\ inflight' = inflight
                /\ conversionCache' = conversionCache]_vars
    /\ [][\A call \in Queried : call.fromCurrency # call.toCurrency]_vars

\* EUR to EUR was asked while the cache held entries and a request was out
C12_Witness ==
    /\ \E r \in Returns : r.fromCurrency = "EUR" /\ r.toCurrency = "EUR"
    /\ conversionCache # <<>>
    /\ inflight # <<>>

---------------------------------------------------------------------------
(* C13  Cache validity.                                                    *)

\* C13: a call is answered from the cache only if the entry of its own
\* ordered pair is less than 1 hour old, and then with amount x that rate
\* and without a request; a request goes out only for a pair whose entry is
\* missing or 1 hour old or older.  (The steps that start a call either
\* answer at once or send a request, so a call whose entry is missing or
\* expired sends one, whatever the reverse pair's entry.)
C13_CacheValidity ==
    /\ [][\A r \in ReturnsNext :
            r.via = "cache" =>
                /\ Fresh(PairOf(r))
                /\ r.value = VMul(r.amount, conversionCache[PairOf(r)].rate)
                /\ conversionCache' = conversionCache]_vars
    /\ [][\A call \in Queried : ~Fresh(PairOf(call))]_vars
    /\ [][\A amount \in ClientAmounts, pair \in ClientPairs :
            pair[1] # pair[2] =>
                LET start == ConvertStart(R(amount), pair[1], pair[2],
                                          conversionCache, now)
                IN  /\ Fresh(pair) =>
                        /\ start.kind = "return"
                        /\ start.return.value =
                              VMul(R(amount), conversionCache[pair].rate)
                    /\ ~Fresh(pair) => start.kind = "await"]_vars

\* a call answered from an entry that is half an hour old, while a request
\* is out for EUR to USD although USD to EUR is cached and fresh
C13_Witness ==
    /\ \E r \in Returns :
          /\ r.via = "cache"
          /\ now = conversionCache[PairOf(r)].timestamp + 1
          /\ ~IsNaN(r.value)
    /\ \E i \in 1..Len(inflight) :
          /\ inflight[i].fromCurrency = "EUR" /\ inflight[i].toCurrency = "USD"
          /\ Fresh(CacheKey("USD", "EUR"))

---------------------------------------------------------------------------
(* C14  A failed conversion falls back to the static table.                *)

\* C14, as stated: a call that had to ask the rate source returns either
\* amount x a usable rate the source sent for its pair or, the source
\* failing or sending no usable rate, the value of the static table (the
\* amount itself when the table has neither direction).
C14_AsStated ==
    \A r \in Returns :
        r.via \notin {"same", "cache"} =>
            r.value \in {RMul(r.amount, rate) : rate \in UsableRates(PairOf(r))}
                          \cup {TableValue(r.amount, r.fromCurrency, r.toCurrency)}

---------------------------------------------------------------------------
(* C15  The cache is written by a live fetch only.                         *)

\* C15: the cache changes only in a step in which one awaited call returns
\* with a rate the source sent, and then only the entry of that call's
\* ordered pair changes, to that rate and the present time; a step whose
\* returns come from the cache, the static table or the same-currency
\* passthrough leaves the cache as it was; no entry is ever removed, and no
\* entry holds a rate other than one the source sent for its pair.
C15_CacheWrites ==
    /\ [][conversionCache' # conversionCache =>
            \E r \in ReturnsNext :
                /\ returned' = <<r>>
                /\ r.via = "live"
                /\ Len(inflight') = Len(inflight) - 1
                /\ \E rate \in SourceRates(PairOf(r)) :
                      /\ r.value = VMul(r.amount, rate)
                      /\ conversionCache' =
                            (PairOf(r) :> [rate |-> rate, timestamp |-> now])
                                @@ conversionCache]_vars
    /\ [][\A r \in ReturnsNext :
            r.via = "live" =>
                /\ PairOf(r) \in DOMAIN conversionCache'
                /\ conversionCache'[PairOf(r)].timestamp = now'
                /\ r.value = VMul(r.amount, conversionCache'[PairOf(r)].rate)]_vars
    /\ [][(returned' # <<>> /\ \A r \in ReturnsNext : r.via # "live")
            => conversionCache' = conversionCache]_vars
    /\ [][DOMAIN conversionCache \subseteq DOMAIN conversionCache']_vars
    /\ [](\A key \in DOMAIN conversionCache :
            /\ conversionCache[key].rate \in SourceRates(key)
            /\ conversionCache[key].timestamp <= now
            /\ key[1] # key[2])

\* a call was answered from the static table while the cache held another
\* pair's entry, and the pair of the call has none
C15_Witness ==
    /\ \E r \in Returns :
          /\ r.via = "fallback"
          /\ PairOf(r) \notin DOMAIN conversionCache
    /\ conversionCache # <<>>

---------------------------------------------------------------------------
(* C16  Concurrent conversions.                                            *)

\* the rates a call for a pair can be answered with: one the source sent
\* for the pair, the static table's, or 1
RatesOfPair(fromCurrency, toCurrency) ==
    IF fromCurrency = toCurrency THEN {R(1)}
    ELSE SourceRates(CacheKey(fromCurrency, toCurrency))
            \cup {TableValue(R(1), fromCurrency, toCurrency)}

\* C16: whatever the order in which the awaited requests are answered, every
\* call returns its own amount times a rate of its own ordered pair; a
\* finished convertMultipleCurrencies holds for every item the conversion of
\* that item's amount from that item's currency, and their sum; every cache
\* entry holds a rate the source sent for its pair, and the entry of a pair
\* is the rate of the last fetch that returned for it.
C16_Concurrent ==
    /\ [](\A r \in Returns :
            \E rate \in RatesOfPair(r.fromCurrency, r.toCurrency) :
                r.value = VMul(r.amount, rate))
    /\ [](batch.kind = "done" =>
            /\ DOMAIN batch.results = 1..Len(batch.items)
            /\ \A i \in 1..Len(batch.items) :
                  \E rate \in RatesOfPair(batch.items[i].currency, TARGET_CURRENCY) :
                      batch.results[i] = VMul(R(batch.items[i].amount), rate)
            /\ batch.total = VSum([i \in 1..Len(batch.items) |-> batch.results[i]]))
    /\ [](\A key \in DOMAIN conversionCache :
            conversionCache[key].rate \in SourceRates(key))
    /\ [][\A r \in ReturnsNext :
            r.via = "live" =>
                r.value = VMul(r.amount, conversionCache'[PairOf(r)].rate)]_vars
    /\ [][\A i \in 1..Len(inflight) :
            \/ \E j \in 1..Len(inflight') : inflight'[j] = inflight[i]
            \/ \E r \in ReturnsNext :
                  /\ r.amount = inflight[i].amount
                  /\ r.fromCurrency = inflight[i].fromCurrency
                  /\ r.toCurrency = inflight[i].toCurrency]_vars

\* a fan-out of two USD amounts finished with the two requests answered with
\* different rates, none left awaiting
C16_Witness ==
    /\ batch.kind = "done"
    /\ inflight = <<>>
    /\ batch.results[1] = RMul(R(Amt(100)), <<19, 20>>)
    /\ batch.results[2] = RMul(R(Amt(50)), <<9, 10>>)
    /\ CacheKey("USD", "EUR") \in DOMAIN conversionCache

---------------------------------------------------------------------------
(* Vocabulary of the conversion effects' properties.                       *)

PivotTotal == eurTotalExpenses(convertedAmounts)
PivotTotalNext == eurTotalExpenses(convertedAmounts')

AwaitedBy(calls, kind) == {i \in 1..Len(calls) : calls[i].owner.kind = kind}

\* the convertTotal effect runs in this step
TotalEffectRuns ==
    PivotTotalNext # PivotTotal \/ displayCurrency' # displayCurrency

---------------------------------------------------------------------------
(* C17  Total Converter, zero case.                                        *)

\* C17: a step in which the convertTotal effect runs with a pivot total of 0
\* sets convertedTotal to 0 and starts no conversion for the total, whatever
\* the display currency; when the step is a display-currency selection,
\* nothing is asked of the rate provider at all: no call returns, no request
\* goes out and the cache stays as it was.
C17_ZeroTotal ==
    [][TotalEffectRuns /\ PivotTotalNext = R(0) =>
          /\ convertedTotal' = R(0)
          /\ Cardinality(AwaitedBy(inflight', "total"))
                <= Cardinality(AwaitedBy(inflight, "total"))
          /\ \A r \in ReturnsNext :
                ~(r.fromCurrency = TARGET_CURRENCY /\ r.amount = R(0))
          /\ displayCurrency' # displayCurrency =>
                /\ returned' = <<>>
                /\ inflight' = inflight
                /\ conversionCache' = conversionCache]_vars

\* a pass left a pivot total of 0 and USD is the display currency
C17_Witness ==
    /\ convertedAmounts # <<>>
    /\ PivotTotal = R(0)
    /\ displayCurrency = "USD"
    /\ convertedTotal = R(0)
    /\ inflight = <<>>

---------------------------------------------------------------------------
(* C18  The converted total follows its inputs.                            *)

\* C18, as stated: once no conversion is awaited, convertedTotal is the
\* conversion of the current pivot total into the current display currency
\* (0 when the pivot total is not positive).
C18_AsStated ==
    inflight = <<>> =>
        IF ~IsNaN(PivotTotal) /\ PivotTotal[1] > 0
        THEN \E rate \in RatesOfPair(TARGET_CURRENCY, displayCurrency) :
                convertedTotal = VMul(PivotTotal, rate)
        ELSE convertedTotal = R(0)

---------------------------------------------------------------------------
(* C19  Derived amounts follow the expense list.                           *)

\* C19, as stated: once no conversion pass is awaited, convertedAmounts has
\* exactly one entry per expense of the trip, holding a conversion of that
\* expense's amount into the pivot currency (so the pivot total is the sum
\* over the current expenses, 0 for an empty list).
C19_AsStated ==
    AwaitedBy(inflight, "pass") = {} =>
        /\ DOMAIN convertedAmounts = {expenses[i].id : i \in 1..Len(expenses)}
        /\ \A i \in 1..Len(expenses) :
              \E rate \in RatesOfPair(expenses[i].currency, TARGET_CURRENCY) :
                  convertedAmounts[expenses[i].id] = VMul(R(expenses[i].amount), rate)

---------------------------------------------------------------------------
(* Vocabulary of the edit/delete capability.                               *)

ListedExpense(id) == CHOOSE e \in ExpenseSet : e.id = id

\* the viewer may edit the trip and is the expense's creator or the owner
Capable(expense) ==
    /\ permission = "edit"
    /\ \/ user # Null /\ user.id = expense.createdBy
       \/ isOwner

\* a step in which handleEditExpense took up an expense
EditTaken == editingExpense' # Null /\ editingExpense' # editingExpense

\* a step in which handleDeleteExpense ran
DeleteTaken == outcome' # outcome /\ outcome'.kind = "handleDeleteExpense"

\* C20: handleEditExpense and handleDeleteExpense run for an expense only
\* when the viewer's permission is 'edit' and the acting user is the
\* expense's creator or the trip owner, and onDeleteExpense is called only
\* when the user confirmed the deletion, and then for that expense.
C20_EditDeleteCapability ==
    [][ /\ EditTaken => Capable(editingExpense')
        /\ DeleteTaken =>
             /\ Capable(ListedExpense(outcome'.expenseId))
             /\ outcome'.onDeleteExpense # <<>> =>
                  /\ outcome'.confirm
                  /\ outcome'.onDeleteExpense = <<outcome'.expenseId>>
      ]_vars

\* the creator of an expense, not the owner of the trip, confirmed its
\* deletion
C20_Witness ==
    /\ outcome.kind = "handleDeleteExpense"
    /\ outcome.onDeleteExpense = <<outcome.expenseId>>
    /\ permission = "edit"
    /\ ~isOwner
    /\ user # Null
    /\ ListedExpense(outcome.expenseId).createdBy = user.id

---------------------------------------------------------------------------
(* Vocabulary of the trips API.                                            *)

\* the responses the step sent
NewAnswers == {answered'[k] : k \in (Len(answered) + 1)..Len(answered')}

\* the requests whose handler was awaiting the collection before the step
AwaitedRids == {requests[k].rid : k \in 1..Len(requests)}

\* the requests the step received and left awaiting the collection
NewAwaited == {requests'[k] : k \in {j \in 1..Len(requests') : requests'[j].rid \notin AwaitedRids}}

\* C21: a get, update, delete, add or remove request that arrives for a
\* trip id the store does not hold is answered 404 'Trip not found' at
\* once, and the store stays as it was (an update creates no trip), with
\* the collection and with memoryStore.
C21_NotFound ==
    [][ /\ \A r \in NewAnswers :
              /\ r.rid \notin AwaitedRids
              /\ r.request.op # "post"
              /\ r.request.tripId \notin DOMAIN trips
              => /\ r.status = 404
                 /\ r.body = [error |-> "Trip not found"]
                 /\ trips' = trips
        /\ \A q \in NewAwaited : q.request.tripId \in DOMAIN trips
      ]_vars

\* an update and a removal addressed to a missing trip were answered, with
\* the collection in use
C21_Witness ==
    /\ database
    /\ "t2" \notin DOMAIN trips
    /\ \E k \in 1..Len(answered) :
          /\ answered[k].request.op = "put"
          /\ answered[k].request.tripId = "t2"
          /\ answered[k].status = 404
    /\ \E k \in 1..Len(answered) :
          /\ answered[k].request.op = "remove"
          /\ answered[k].request.tripId = "t2"
          /\ answered[k].status = 404

\* an :idx that is a number: decimal digits only
IsNumeral(chars) ==
    /\ Len(chars) > 0
    /\ \A k \in 1..Len(chars) : DigitValue(chars[k]) >= 0

NumeralValue(chars) == ReadDigits(chars, 1, 0, 0).value

\* a removal request names a list of the trip and an index inside it
Removable(trip, type, idx) ==
    /\ type \in {"flights", "hotels", "rides", "attractions"}
    /\ IsNumeral(idx)
    /\ NumeralValue(idx) < Len(trip[type])

\* the removal requests that arrive in the step: answered by it or left
\* awaiting the collection
ArrivingRemovals ==
    {r.request : r \in {a \in NewAnswers : a.rid \notin AwaitedRids /\ a.request.op = "remove"}}
        \cup {q.request : q \in {a \in NewAwaited : a.request.op = "remove"}}

\* the removals the step writes to the store
WrittenRemovals ==
    {r.request : r \in {a \in NewAnswers : a.rid \notin AwaitedRids /\ a.request.op = "remove" /\ a.status = 200}}
        \cup {requests[k].request : k \in {j \in 1..Len(requests) :
                    /\ requests[j].request.op = "remove"
                    /\ requests[j].pc = "updateOne"
                    /\ j <= Len(requests')
                    /\ requests'[j].pc = "findOne"}}

\* C23 (as stated): a removal with a valid type and 0 <= idx < length
\* removes exactly the element at idx, keeps the order of the others and
\* leaves the other lists as they were; a removal with an invalid type, a
\* non-numeric idx or an idx outside the range is answered 400 and leaves the
\* trip unchanged.
C23_AsStated ==
    [][ /\ \A q \in ArrivingRemovals :
              q.tripId \in DOMAIN trips /\ ~Removable(trips[q.tripId], q.type, q.body)
              => /\ \E r \in NewAnswers : r.request = q /\ r.status = 400
                 /\ trips' = trips
        /\ \A q \in WrittenRemovals :
              q.tripId \in DOMAIN trips
              => trips' = [trips EXCEPT ![q.tripId][q.type] =
                                RemoveAt(@, NumeralValue(q.body) + 1)]
      ]_vars

\* the items a removal request took out of the trip, and the trips a delete
\* request took out of the store
RemovedItems(tripId) ==
    {answered[k].item : k \in {j \in 1..Len(answered) :
            /\ answered[j].request.op = "remove"
            /\ answered[j].request.tripId = tripId
            /\ answered[j].status = 200}}
      \cup {requests[k].item : k \in {j \in 1..Len(requests) :
            /\ requests[j].request.op = "remove"
            /\ requests[j].request.tripId = tripId
            /\ requests[j].pc = "findOne"}}

\* C27 (as stated): every item whose add request was answered 201 is in the
\* stored trip, unless a removal request took it out.
C27_AsStated ==
    \A k \in 1..Len(answered) :
        LET r == answered[k]
        IN  /\ r.request.op = "add"
            /\ r.status = 201
            /\ r.request.tripId \in DOMAIN trips
            /\ r.item \notin RemovedItems(r.request.tripId)
            => \E j \in 1..Len(trips[r.request.tripId][r.request.type]) :
                   trips[r.request.tripId][r.request.type][j] = r.item

---------------------------------------------------------------------------
(* Vocabulary of the registration.                                         *)

NewRegistered == {registered'[k] : k \in (Len(registered) + 1)..Len(registered')}

AwaitedRegistrations == {registrations[k].rid : k \in 1..Len(registrations)}

StoredEmails == {users[k].email : k \in 1..Len(users)}

CompleteBody(body) == {"email", "password", "name"} \subseteq DOMAIN body

\* C28 (as stated): no two stored users have the same email; a registration
\* that arrives for a stored email is answered 400 'Email already
\* registered' and one lacking email, password or name is answered 400, and
\* neither inserts anything.
C28_AsStated ==
    [][ /\ \A j, k \in 1..Len(users') :
              users'[j].email = users'[k].email => j = k
        /\ \A r \in NewRegistered :
              r.rid \notin AwaitedRegistrations
              => /\ ~CompleteBody(r.body) => r.status = 400 /\ users' = users
                 /\ CompleteBody(r.body) /\ r.body.email \in StoredEmails
                      => /\ r.status = 400
                         /\ r.json = [error |-> "Email already registered"]
                         /\ users' = users
      ]_vars

---------------------------------------------------------------------------
(* The expense list filter.                                                *)

\* the expense list as shown
ShownExpenses == filteredExpenses(expenses, filterCategory, filterParticipant)

\* the expenses of the selected category in which the selected participant
\* is a payer or has a split
Wanted(expense) ==
    /\ filterCategory = "all" \/ expense.category = filterCategory
    /\ \/ filterParticipant = "all"
       \/ filterParticipant \in PayerIds(expense)
       \/ filterParticipant \in SplitIds(expense)

\* C26 (as stated): the filtered list holds exactly the expenses of the
\* selected category in which the selected participant is the single payer,
\* one of several payers, or has a split; 'all' excludes no expense.
C26_AsStated ==
    ShownExpenses = SelectSeq(expenses, Wanted)

---------------------------------------------------------------------------
(* The pivot amounts the aggregator uses.                                  *)

\* the amounts the conversion passes stored, as the aggregator reads them
StoredPivots == PivotTicks(convertedAmounts)

\* the balances the aggregation gives, with no shortcut to the input
AggregatedBalances ==
    LET pb == FoldExpenses(InitParticipantBalances(balances), expenses, StoredPivots)
    IN  SeqMap(NetBalance, ObjectValues(pb, InsertionOrder(balances, pb), {}))

\* C22 (as stated): in every state of the component each expense of the trip
\* has a pivot amount returned by the Currency Rate Provider, the aggregator
\* uses that amount and never the expense's raw amount, and the balances
\* shown are the aggregated ones, never the input balances.
C22_AsStated ==
    /\ \A i \in 1..Len(expenses) :
          /\ expenses[i].id \in DOMAIN convertedAmounts
          /\ ConvertedAmount(expenses[i], StoredPivots) = StoredPivots[expenses[i].id]
    /\ expenses # <<>> => eurBalances = AggregatedBalances

---------------------------------------------------------------------------
(* The auth middleware.                                                    *)

\* the header carries a bearer token
BearerToken(authHeader) == authHeader # Null /\ authHeader.scheme = "Bearer "

\* the token is one of the server's own JWTs, signed and not expired
OwnJwt(tok) == tok.kind = "jwt"

\* the verdict followed a successful verification as a Google ID token
GoogleVerified(v) == v.ticket # Null /\ v.ticket.ok

NextCalled(v) == \E k \in 1..Len(v.calls) : v.calls[k].call = "next"

\* C24: next() is called exactly when the bearer token verifies as one of
\* the server's own JWTs or, that having failed, as a Google ID token, and
\* req.user is set only then; a missing header, another scheme or a token
\* failing both is answered 401 without next(); every request gets exactly
\* one of the two, and a request still waiting for Google has got neither.
C24_Middleware ==
    /\ \A k \in 1..Len(verified) :
          LET v == verified[k]
              accepted == /\ BearerToken(v.authHeader)
                          /\ \/ OwnJwt(v.authHeader.rest)
                             \/ ~OwnJwt(v.authHeader.rest) /\ GoogleVerified(v)
          IN  /\ Len(v.calls) = 1
              /\ NextCalled(v) <=> accepted
              /\ v.user # Null <=> accepted
              /\ ~accepted => v.calls[1].call = "res" /\ v.calls[1].status = 401
              /\ BearerToken(v.authHeader) /\ OwnJwt(v.authHeader.rest)
                    => v.ticket = Null
    /\ \A k \in 1..Len(verifying) :
          /\ BearerToken(verifying[k].authHeader)
          /\ ~OwnJwt(verifying[k].authHeader.rest)

\* an own JWT and a Google ID token were let through, and an expired JWT,
\* after Google refused it, and a request with another scheme were answered
\* 401
C24_Witness ==
    /\ \E k \in 1..Len(verified) :
          /\ verified[k].authHeader # Null
          /\ verified[k].authHeader.rest.kind = "google"
          /\ NextCalled(verified[k])
    /\ \E k \in 1..Len(verified) :
          /\ verified[k].authHeader # Null
          /\ verified[k].authHeader.rest.kind = "expired"
          /\ verified[k].calls = <<[call |-> "res", status |-> 401, error |-> "Invalid token"]>>
    /\ \E k \in 1..Len(verified) :
          /\ verified[k].authHeader # Null
          /\ verified[k].authHeader.scheme = "Basic "
          /\ verified[k].calls = <<[call |-> "res", status |-> 401, error |-> "No token provided"]>>

---------------------------------------------------------------------------
(* The smart checkout.                                                     *)

\* the minute of the day a time "HH:MM..." names, read at position p
MinuteOfDay(chars, p) ==
    60 * ReadDigits(chars, p, 0, 0).value + ReadDigits(chars, p + 3, 0, 0).value

\* the flight's minute of the day; the time starts at position 12 of the
\* departure time
FlightMinuteOfDay == MinuteOfDay(checkoutRequest.flightDepartureTime, 12)

\* x clamped to 06:00..12:00
Clamped(x) == IF x < 360 THEN 360 ELSE IF x > 720 THEN 720 ELSE x

\* C25: a flight departing at hour >= 21 is answered checkout 12:00 with
\* shouldCreateRide false and without a distance lookup; an earlier flight
\* whose lookup succeeds is answered the clock time 3 hours and the drive
\* duration (rounded up to minutes) before the flight, not earlier than
\* 06:00 and not later than 12:00.
C25_SmartCheckout ==
    checkoutResponse # Null /\ HasField(checkoutRequest, "airportCode") =>
        IF FlightMinuteOfDay >= 21 * 60
        THEN /\ checkoutResponse.status = 200
             /\ checkoutResponse.json.checkoutTime = <<"1", "2", ":", "0", "0">>
             /\ checkoutResponse.json.shouldCreateRide = FALSE
             /\ checkoutResponse.lookups = 0
        ELSE checkoutResponse.status = 200 /\ checkoutResponse.json.shouldCreateRide =>
             \E seconds \in DurationValues :
                 LET drive == CHOOSE m \in 0..(seconds \div 60 + 1) :
                                  60 * m >= seconds /\ 60 * (m - 1) < seconds
                 IN  /\ checkoutResponse.json.driveDurationMinutes = drive
                     /\ Len(checkoutResponse.json.checkoutTime) = 5
                     /\ MinuteOfDay(checkoutResponse.json.checkoutTime, 1)
                          = Clamped((FlightMinuteOfDay - 180 - drive) % 1440)

\* a 02:00 flight with a drive of 59 minutes 59 seconds: the clock time
\* 22:00 of the day before, answered as 12:00; and the lookup was made
C25_Witness ==
    /\ checkoutResponse # Null
    /\ HasField(checkoutRequest, "airportCode")
    /\ FlightMinuteOfDay = 120
    /\ checkoutResponse.status = 200
    /\ checkoutResponse.json.shouldCreateRide
    /\ checkoutResponse.json.driveDurationMinutes = 60
    /\ checkoutResponse.lookups = 1

---------------------------------------------------------------------------
(* The session.                                                            *)

\* the calls that changed from pending to the result r in this step
Settled(r) ==
    {i \in 1..Len(authCalls) :
        /\ Len(authCalls') = Len(authCalls)
        /\ authCalls[i].result = "pending"
        /\ authCalls'[i].result = r}

\* this step is a call of logout
LogoutCalled ==
    /\ Len(authCalls') = Len(authCalls) + 1
    /\ authCalls'[Len(authCalls')].op = "logout"

SessionConsistent ==
    /\ (user # Null) <=> (token # Null)
    /\ ("authToken" \in DOMAIN localStorage) <=> (user # Null)
    /\ ("user" \in DOMAIN localStorage) <=> (user # Null)

\* C29: user is non-null exactly when token is, and the persisted authToken
\* and user entries are present exactly when the user is logged in; a
\* failed loginWithEmail or register sets error and leaves user, token and
\* the persisted entries unchanged; logout clears user, token, error and
\* both persisted entries.
C29_AuthStateConsistency ==
    /\ []SessionConsistent
    /\ [][/\ Settled("failed") # {} =>
               /\ error' # Null
               /\ UNCHANGED <<user, token, localStorage>>
          /\ LogoutCalled =>
               /\ user' = Null
               /\ token' = Null
               /\ error' = Null
               /\ DOMAIN localStorage' = {}]_vars

\* a user is logged in, a loginWithEmail has failed and left its error, and
\* a logout was called before
C29_Witness ==
    /\ user # Null
    /\ error # Null
    /\ \E i \in 1..Len(authCalls) : authCalls[i].result = "failed"
    /\ \E i \in 1..Len(authCalls) : authCalls[i].op = "logout"

\* the position of the last call of logout, 0 when there was none
LastLogout ==
    IF \E i \in 1..Len(authCalls) : authCalls[i].op = "logout"
    THEN CHOOSE i \in 1..Len(authCalls) :
            /\ authCalls[i].op = "logout"
            /\ \A j \in (i + 1)..Len(authCalls) : authCalls[j].op # "logout"
    ELSE 0

\* C30 as stated: once logout has been called, isAuthenticated is false and
\* no token is persisted unless a login, loginWithEmail or register call
\* made after the logout has succeeded.
C30_AsStated ==
    LastLogout > 0
      /\ (\A j \in (LastLogout + 1)..Len(authCalls) : authCalls[j].result # "ok")
    => ~isAuthenticated /\ "authToken" \notin DOMAIN localStorage

===========================================================================
